---------------------------- MODULE Spec2Model ----------------------------
(***************************************************************************)
(* Multi-scalar multiplication kernels of src/aztec/gpu/msm/kernel.cu.     *)
(*                                                                         *)
(* A uint64_t limb is the set of its set bit positions (a subset of        *)
(* 0..63), so that the 64-bit width of every shift, addition and mask is   *)
(* kept.  A scalar (fr_gpu) is a function from the limb index 0..3 to a    *)
(* limb.  A curve point (g1_gpu::element) is a number of 0..Ord: 0 is the  *)
(* all-zero coordinate triple, 1..Ord-1 are the non-identity elements of a *)
(* group of prime order Ord, and Ord is the point at infinity in the form  *)
(* the addition formula leaves it (z = 0, x and y not 0).                  *)
(***************************************************************************)
EXTENDS Integers, Sequences, FiniteSets, TLC

VARIABLES
    pc,                 \* position of the host program / of the run
    shift_ub,           \* what a shift by the operand's width or more yields
    junk,               \* the point an indeterminate element read yields
    oob_limb,           \* the limb an out-of-bounds limb read yields
    scalar, width, digits,              \* decompose_scalar_digit runs
    points, scalars, npoints, c, num_bucket_modules,
    bucket_indices, point_indices, tdone,
    bucket_offsets, bucket_sizes, single_bucket_indices,
    buckets, final_sum, final_result, launched,
    M, U, S_, G_, result,
    history,            \* the final result of each earlier run on the same input
    txs, validation, txDaos,            \* falafel: TxFeeAllocator
    syncInstances, initState, isLeader, \* sdk: the instances createCoreSdk made
    leadershipResolved,                 \* sdk: awaitLeadership() resolved, callback due
    startReceivingBlocksCalls,          \* sdk: what held at each call, per instance
    gridDim, blockDim,                  \* the geometry of a kernel launch
    accessed,                           \* the elements each worker has read or written
    partial_sum, phase, regs,           \* sum_reduction_kernel: one block
    s_pass, t_active,                   \* its loop variables s and t
    addition,                           \* one curve addition: site, operands, results
    z_loop                              \* final_accumulation_kernel: its loop variable z

vars == <<pc, shift_ub, junk, oob_limb, scalar, width, digits,
          points, scalars, npoints, c, num_bucket_modules,
          bucket_indices, point_indices, tdone,
          bucket_offsets, bucket_sizes, single_bucket_indices,
          buckets, final_sum, final_result, launched, M, U, S_, G_, result, history,
          txs, validation, txDaos,
          syncInstances, initState, isLeader, leadershipResolved,
          startReceivingBlocksCalls,
          gridDim, blockDim, accessed, partial_sum, phase, regs, s_pass, t_active,
          addition, z_loop>>

feeVars == <<txs, validation, txDaos>>

sdkVars == <<syncInstances, initState, isLeader, leadershipResolved,
             startReceivingBlocksCalls>>

launchVars == <<gridDim, blockDim, accessed, partial_sum, phase, regs, s_pass, t_active,
          addition, z_loop>>

\* The variables of the programs other than the MSM pipeline.
otherVars == <<feeVars, sdkVars, launchVars>>

(***************************************************************************)
(* Program constants.                                                      *)
(***************************************************************************)
LIMBS == 4
LimbBits == 64
IntBits == 32
ScalarBits == LIMBS * LimbBits

(***************************************************************************)
(* Bounds of the model.                                                    *)
(***************************************************************************)
Ord == 13
MaxWidth == 33
MaxExtraModules == 1
MaxNaivePoints == 2
MaxPoints == 2
MaxC == 3
SmallInputThreshold == 1

Pow2(n) == 2 ^ n

CeilDiv(a, b) == (a + b - 1) \div b

\* the fr_gpu with the limbs data[0] .. data[3]
Fr(l0, l1, l2, l3) == [k \in 0 .. (LIMBS - 1) |-> <<l0, l1, l2, l3>>[k + 1]]

(***************************************************************************)
(* uint64_t and int arithmetic on bit sets.                                *)
(***************************************************************************)
\* The shift count the build uses for a shift by s on a w-bit operand: s
\* itself below w; at s >= w the behaviour is undefined, and the build either
\* clamps the count (the result is 0) or takes it modulo w.
ShiftCount(s, w, ub) ==
    IF s < w THEN s ELSE IF ub = "wrap" THEN s % w ELSE w

\* x >> s on a uint64_t
Shr64(x, s, ub) ==
    LET e == ShiftCount(s, LimbBits, ub)
    IN  {b - e : b \in {y \in x : y >= e}}

\* x << s on a uint64_t
Shl64(x, s, ub) ==
    LET e == ShiftCount(s, LimbBits, ub)
    IN  {b + e : b \in {y \in x : y + e < LimbBits}}

\* x + y on natural numbers of any size: the sum without carries (the bits set
\* in exactly one operand) plus the carries (the bits set in both, moved up).
RECURSIVE BigAdd(_, _)
BigAdd(x, y) ==
    IF x \cap y = {} THEN x \cup y
    ELSE BigAdd((x \cup y) \ (x \cap y), {b + 1 : b \in x \cap y})

\* x + y on uint64_t (modulo 2^64)
Add64(x, y) == {b \in BigAdd(x, y) : b < LimbBits}

\* (1 << width) - 1, computed in int and converted to uint64_t by the &=:
\* below 32 the low `width` bits; at 32 or more the shift is undefined, and
\* the build yields either 0 - 1 = -1 (all 64 bits after sign extension) or
\* the mask of width modulo 32.
IntMask(w, ub) ==
    LET e == ShiftCount(w, IntBits, ub)
    IN  IF e = IntBits THEN 0 .. (LimbBits - 1) ELSE 0 .. (e - 1)

\* The value of a bit set that fits a TLC integer.
RECURSIVE BitsToNat(_)
BitsToNat(x) ==
    IF x = {} THEN 0
    ELSE LET b == CHOOSE y \in x : TRUE IN Pow2(b) + BitsToNat(x \ {b})

\* The bits of a natural number below 2^31.
NatToBits(n) == {b \in 0 .. 30 : (n \div Pow2(b)) % 2 = 1}

(***************************************************************************)
(* decompose_scalar_digit                                                  *)
(***************************************************************************)
decompose_scalar_digit(s, num, w, ub, oob) ==
    LET limb_lsb_idx == (num * w) \div LimbBits
        shift_bits == (num * w) % LimbBits
        data(k) == IF k < LIMBS THEN s[k] ELSE oob
        rv0 == Shr64(data(limb_lsb_idx), shift_bits, ub)
        rv1 == IF (shift_bits + w > LimbBits) /\ (limb_lsb_idx + 1 < LIMBS)
               THEN Add64(rv0, Shl64(data(limb_lsb_idx + 1), LimbBits - shift_bits, ub))
               ELSE rv0
    IN  rv1 \cap IntMask(w, ub)

(***************************************************************************)
(* The curve group (g1_gpu), as the kernels call it.                       *)
(***************************************************************************)
Points == 0 .. Ord

\* fq_gpu::is_zero of the z coordinate: the point is at infinity
IsInfinity(p) == p = 0 \/ p = Ord

\* fq_gpu::is_zero of x, y and z: the all-zero coordinate triple
is_zero(p) == p = 0

\* The representation of the group element v as the formulas leave it.
Norm(v) == IF v % Ord = 0 THEN Ord ELSE v % Ord

\* g1_gpu::add, the raw addition formula: an operand at infinity yields the
\* other operand, and a point added to itself yields the all-zero triple.
add(a, b) ==
    IF IsInfinity(a) THEN b
    ELSE IF IsInfinity(b) THEN a
    ELSE IF a = b THEN 0
    ELSE Norm(a + b)

\* g1_gpu::doubling
doubling(a) == IF IsInfinity(a) THEN a ELSE Norm(2 * a)

\* The group element a point represents (0 is the identity).
GroupValue(p) == p % Ord

(***************************************************************************)
(* double_and_add_kernel                                                   *)
(***************************************************************************)
\* ((limb >> i) & 1): bit 0 of limb >> i is the bit of limb at the shift count
BitAt(limb, i, ub) ==
    LET e == ShiftCount(i, LimbBits, ub)
    IN  e < LimbBits /\ e \in limb

\* The loop over the bits of one limb, from i down to 0 (the test of R2 has
\* the step's result evaluated before the next step starts).
RECURSIVE LimbLoop(_, _, _, _, _)
LimbLoop(Q, limb, R, i, ub) ==
    IF i < 0 THEN R
    ELSE LET R1 == IF BitAt(limb, i, ub) THEN add(Q, R) ELSE R
             R2 == IF i # 0 THEN doubling(R1) ELSE R1
         IN  IF R2 \in Points THEN LimbLoop(Q, limb, R2, i - 1, ub) ELSE R2

\* The loop over the limbs j = 3 .. 0, R starting at the identity.
RECURSIVE BitDecomposition(_, _, _, _, _)
BitDecomposition(Q, data, R, j, ub) ==
    IF j < 0 THEN R
    ELSE BitDecomposition(Q, data, LimbLoop(Q, data[j], R, LimbBits, ub), j - 1, ub)

RECURSIVE DoubleAndAddLoop(_, _, _, _, _, _)
DoubleAndAddLoop(test_scalars, test_points, fr, z, num_points, ub) ==
    IF z >= num_points THEN fr
    ELSE LET R == BitDecomposition(test_points[z], test_scalars[z], 0, LIMBS - 1, ub)
         IN  DoubleAndAddLoop(test_scalars, test_points, add(R, fr), z + 1, num_points, ub)

\* The kernel without its zeroing of final_result: the sum starts from what the
\* buffer held.
double_and_add_kernel_no_init(test_scalars, test_points, final_result0, num_points, ub) ==
    DoubleAndAddLoop(test_scalars, test_points, final_result0, 0, num_points, ub)

\* final_result[0] after the kernel; final_result0 is what the buffer held.
double_and_add_kernel(test_scalars, test_points, final_result0, num_points, ub) ==
    DoubleAndAddLoop(test_scalars, test_points, 0, 0, num_points, ub)

(***************************************************************************)
(* initialize_buckets_kernel                                               *)
(*                                                                         *)
(* Thread tid of group g = tid \div 4 stores zero().data[tid] into         *)
(* bucket[g].x.data[tid], .y.data[tid] and .z.data[tid].  Only for the     *)
(* threads 0..3 of group 0 is tid a limb index: they store the four zero   *)
(* limbs of x, y and z of bucket[0].  For every tid >= 4 the value read    *)
(* lies outside zero().data and the limbs written lie outside the          *)
(* coordinate, so no element after bucket[0] receives its twelve limbs     *)
(* from a defined value: it holds what the build and the memory leave      *)
(* there, the point jnk.                                                   *)
(***************************************************************************)
initialize_buckets_kernel(num_buckets, jnk) ==
    [e \in 0 .. (num_buckets - 1) |-> IF e = 0 THEN 0 ELSE jnk]

(***************************************************************************)
(* split_scalars_kernel, one thread.                                       *)
(***************************************************************************)
\* (i << w) | bucket_index, bucket_index being the digit cut to unsigned
PackKey(i, w, digit) ==
    BitsToNat(NatToBits(i * Pow2(w)) \cup {b \in digit : b < IntBits})

\* The window i whose slot i * np + tid is k, or -1 when the thread writes
\* no such slot.
WindowOfSlot(k, np, nbm, tid) ==
    IF np > 0 /\ k >= tid /\ (k - tid) % np = 0 /\ (k - tid) \div np < nbm
    THEN (k - tid) \div np
    ELSE -1

\* The kernel with every thread reading the first scalar instead of its own.
split_scalars_kernel_first_scalar(bi, pi, ss, np, nbm, w, tid, ub, oob) ==
    [ bucket_indices |->
        [k \in DOMAIN bi |->
            LET i == WindowOfSlot(k, np, nbm, tid)
            IN  IF i >= 0
                THEN PackKey(i, w, decompose_scalar_digit(ss[0], i, w, ub, oob))
                ELSE bi[k]],
      point_indices |->
        [k \in DOMAIN pi |->
            IF WindowOfSlot(k, np, nbm, tid) >= 0 THEN tid ELSE pi[k]] ]

\* One thread tid of the kernel: the two index arrays after its stores.
split_scalars_kernel(bi, pi, ss, np, nbm, w, tid, ub, oob) ==
    [ bucket_indices |->
        [k \in DOMAIN bi |->
            LET i == WindowOfSlot(k, np, nbm, tid)
            IN  IF i >= 0
                THEN PackKey(i, w, decompose_scalar_digit(ss[tid], i, w, ub, oob))
                ELSE bi[k]],
      point_indices |->
        [k \in DOMAIN pi |->
            IF WindowOfSlot(k, np, nbm, tid) >= 0 THEN tid ELSE pi[k]] ]

(***************************************************************************)
(* binaryElementAdd and accumulate_buckets_kernel, one group.              *)
(***************************************************************************)
binaryElementAdd(element_a, element_b) ==
    LET r == add(element_a, element_b)
    IN  IF is_zero(r) THEN doubling(element_b) ELSE r

\* thrust::reduce over the elements first .. last - 1 of an array
RECURSIVE thrust_reduce(_, _, _, _)
thrust_reduce(arr, first, last, init) ==
    IF first >= last THEN init
    ELSE binaryElementAdd(thrust_reduce(arr, first, last - 1, init), arr[last - 1])

\* sizeof(buckets), the size of a pointer
SizeofPointer == 8

\* The stores of group g into buckets, as a set of [index, value].  The kernel
\* returns at an empty bucket; otherwise it calls thrust::reduce num_buckets
\* times over buckets[0 .. sizeof(buckets)) and drops the value: no statement
\* of the kernel stores into buckets.
accumulate_buckets_kernel(bk, offsets, sizes, sbi, pidx, pts, num_buckets, g, jnk) ==
    IF sizes[g] = 0 THEN {}
    ELSE LET arr == [e \in 0 .. (SizeofPointer - 1) |->
                        IF e \in DOMAIN bk THEN bk[e] ELSE jnk]
             dropped == thrust_reduce(arr, 0, SizeofPointer, jnk)
         IN  {}

(***************************************************************************)
(* bucket_running_sum_kernel, one group (g is the module).                 *)
(***************************************************************************)
\* The loop run down to bucket 0 of the module.
RECURSIVE RunningSumLoop_through_zero(_, _, _, _, _)
RunningSumLoop_through_zero(bk, base, i, line_sum, fs) ==
    IF i < 0 THEN fs
    ELSE LET ls1 == add(bk[base + i], line_sum)
             fs1 == add(ls1, fs)
             fs2 == IF is_zero(fs1) THEN doubling(ls1) ELSE fs1
         IN  RunningSumLoop_through_zero(bk, base, i - 1, ls1, fs2)

\* The running-sum loop from i down to 1 on <<line_sum, final_sum[g]>>.
RECURSIVE RunningSumLoop(_, _, _, _, _)
RunningSumLoop(bk, base, i, line_sum, fs) ==
    IF i <= 0 THEN fs
    ELSE LET ls1 == add(bk[base + i], line_sum)
             fs1 == add(ls1, fs)
             fs2 == IF is_zero(fs1) THEN doubling(ls1) ELSE fs1
         IN  RunningSumLoop(bk, base, i - 1, ls1, fs2)

bucket_running_sum_kernel(bk, w, g) ==
    LET line_sum == bk[(g + 1) * Pow2(w) - 1]
    IN  RunningSumLoop(bk, g * Pow2(w), Pow2(w) - 2, line_sum, line_sum)

(***************************************************************************)
(* bucket_running_sum_kernel_2 and bucket_running_sum_kernel_3, the        *)
(* windowed reducer: M segments of U buckets.                              *)
(***************************************************************************)
\* An element of a device array; past its end it is what the memory holds.
ReadElement(arr, k, jnk) == IF k \in DOMAIN arr THEN arr[k] ELSE jnk

\* The loop u = U - 1 .. 0 of kernel 2 on <<S, G>>.
RECURSIVE SegmentLoop(_, _, _, _, _, _)
SegmentLoop(bk, base, u, S, G, jnk) ==
    IF u < 0 THEN [S |-> S, G |-> G]
    ELSE LET G1 == add(S, G)
             G2 == IF is_zero(G1) THEN doubling(S) ELSE G1
             S1 == add(S, ReadElement(bk, base + u, jnk))
         IN  SegmentLoop(bk, base, u - 1, S1, G2, jnk)

\* One block of kernel 2: what it stores in S_[block] and G_[block].
bucket_running_sum_kernel_2(bk, Mv, Uv, block, jnk) ==
    SegmentLoop(bk, block * Pow2(Mv - 1), Uv - 1, 0, 0, jnk)

\* The loop m = 0 .. M - 2 of kernel 3 on <<S, S_k>>, giving S_k.
RECURSIVE SegmentSumLoop(_, _, _, _, _, _, _)
SegmentSumLoop(Sarr, base, m, Mv, S, S_k, jnk) ==
    IF m >= Mv - 1 THEN S_k
    ELSE LET S1 == add(ReadElement(Sarr, base + m, jnk), S)
             T1 == add(S_k, S1)
             T2 == IF is_zero(T1) THEN doubling(S1) ELSE T1
         IN  SegmentSumLoop(Sarr, base, m + 1, Mv, S1, T2, jnk)

\* m doublings
RECURSIVE Doublings(_, _)
Doublings(p, m) == IF m = 0 THEN p ELSE Doublings(doubling(p), m - 1)

\* unsigned v = log2f(U)
RECURSIVE Log2(_)
Log2(n) == IF n <= 1 THEN 0 ELSE 1 + Log2(n \div 2)

\* The loop m = 0 .. M - 1 of kernel 3 on G_k.
RECURSIVE SegmentGLoop(_, _, _, _, _, _)
SegmentGLoop(Garr, base, m, Mv, G_k, jnk) ==
    IF m >= Mv THEN G_k
    ELSE SegmentGLoop(Garr, base, m + 1, Mv,
                      add(G_k, ReadElement(Garr, base + m, jnk)), jnk)

\* One block of kernel 3: what it stores in result[block].  G_k is computed
\* and left in a local; the store is of S_k.
bucket_running_sum_kernel_3(Sarr, Garr, Mv, Uv, block, jnk) ==
    LET S_k0 == SegmentSumLoop(Sarr, block * (Mv - 1), 0, Mv, 0, 0, jnk)
        S_k == Doublings(S_k0, Log2(Uv))
        G_k0 == SegmentGLoop(Garr, block * (Mv - 1), 0, Mv, 0, jnk)
        G_k == add(S_k, G_k0)
    IN  S_k

(***************************************************************************)
(* final_accumulation_kernel                                               *)
(***************************************************************************)
\* fr_gpu exponent{ 1024, 0, 0, 0 }
exponent == Fr({10}, {}, {}, {})

\* the loop bound written in the kernel
FinalModules == 26

\* The inner loops of the kernel, Q * exponent by double and add, for every
\* value of Q and of the undefined shift.
ExponentLoops ==
    [Q \in Points |-> [ub \in {"clamp", "wrap"} |->
        BitDecomposition(Q, exponent, 0, LIMBS - 1, ub)]]

\* The loop z = 26 .. 1; an element of final_sum past its end is jnk.
RECURSIVE FinalLoop(_, _, _, _, _)
FinalLoop(fsum, fr, z, ub, jnk) ==
    IF z <= 0 THEN fr
    ELSE LET Q == fr
             R == ExponentLoops[Q][ub]
             contribution == IF (z - 1) \in DOMAIN fsum THEN fsum[z - 1] ELSE jnk
             fr1 == add(R, contribution)
             fr2 == IF is_zero(fr1) THEN doubling(R) ELSE fr1
         IN  IF fr2 \in Points THEN FinalLoop(fsum, fr2, z - 1, ub, jnk) ELSE fr2

final_accumulation_kernel(fsum, final_result0, nbm, w, ub, jnk) ==
    FinalLoop(fsum, 0, FinalModules, ub, jnk)

(***************************************************************************)
(* Inputs of the runs.                                                     *)
(***************************************************************************)
UBModes == {"clamp", "wrap"}

Ones64 == 0 .. (LimbBits - 1)

\* zero, one, the maximum, and values whose windows straddle limb boundaries
TestScalars ==
    { Fr({}, {}, {}, {}),
      Fr({0}, {}, {}, {}),
      Fr(Ones64, Ones64, Ones64, Ones64),
      Fr({63}, {0}, {}, {}),
      Fr({}, {}, {}, {63}),
      Fr({0, 32}, {}, {}, {}),
      Fr({5, 40}, {1, 62, 63}, {0, 33}, {7, 58}),
      Fr({}, {62, 63}, {0, 1, 2}, {60, 61}) }

OobLimbs == {{}, {0, 63}}

\* curve points of the inputs: P, 2P and -P
InputPoints == {1, 2, Ord - 1}

\* what an indeterminate element of device memory may hold
JunkPoints == {0, 1}

\* scalars of the bucket-method runs: 1 and 2^255 + 2^64 + 2^63 + 2
MsmScalars ==
    { Fr({0}, {}, {}, {}),
      Fr({1, 63}, {0}, {}, {63}) }

MsmPoints == {1, Ord - 1}

\* an element of device memory no kernel has written
Unwritten == -1

\* 0, 1, 3, 2^64, 2^64 + 1 and the maximum
NaiveScalars ==
    { Fr({}, {}, {}, {}),
      Fr({0}, {}, {}, {}),
      Fr({0, 1}, {}, {}, {}),
      Fr({}, {0}, {}, {}),
      Fr({0}, {0}, {}, {}),
      Fr(Ones64, Ones64, Ones64, Ones64) }

\* The variables a run does not use.
NoDigitRun == scalar = Fr({}, {}, {}, {}) /\ width = 0 /\ digits = <<>>

NoMsmRun ==
    /\ points = <<>> /\ scalars = <<>> /\ npoints = 0 /\ c = 0
    /\ bucket_indices = <<>> /\ point_indices = <<>> /\ tdone = {}
    /\ bucket_offsets = <<>> /\ bucket_sizes = <<>> /\ single_bucket_indices = <<>>
    /\ launched = {}

NoReduceRun == M = 0 /\ U = 0 /\ S_ = <<>> /\ G_ = <<>> /\ result = <<>>

NoHistory == history = <<>>

NoFeeRun == txs = <<>> /\ validation = <<>> /\ txDaos = <<>>

NoSdkRun ==
    /\ syncInstances = <<>> /\ initState = <<>> /\ isLeader = <<>>
    /\ leadershipResolved = <<>> /\ startReceivingBlocksCalls = <<>>

NoLaunchRun ==
    /\ gridDim = 0 /\ blockDim = 0 /\ accessed = {}
    /\ partial_sum = <<>> /\ phase = <<>> /\ regs = <<>> /\ s_pass = 0 /\ t_active = 0
    /\ addition = <<>> /\ z_loop = 0

NoOtherRun == NoFeeRun /\ NoSdkRun /\ NoLaunchRun

\* No kernel runs: the device holds nothing.
NoKernelRun ==
    /\ shift_ub = "clamp" /\ junk = 0 /\ oob_limb = {}
    /\ NoDigitRun /\ NoMsmRun /\ NoReduceRun /\ NoHistory
    /\ num_bucket_modules = 0 /\ buckets = <<>> /\ final_sum = <<>> /\ final_result = 0

(***************************************************************************)
(* Digit decomposition of one scalar: the loop of split_scalars_kernel     *)
(* over the windows of one scalar.                                         *)
(***************************************************************************)
InitDigit ==
    /\ pc = "digit"
    /\ shift_ub \in UBModes
    /\ oob_limb \in OobLimbs
    /\ junk = 0
    /\ scalar \in TestScalars
    /\ width \in 1 .. MaxWidth
    /\ \E extra \in 0 .. MaxExtraModules :
          num_bucket_modules = CeilDiv(ScalarBits, width) + extra
    /\ digits = <<>>
    /\ NoMsmRun /\ NoReduceRun /\ NoHistory /\ NoOtherRun
    /\ buckets = <<>> /\ final_sum = <<>> /\ final_result = 0

DecomposeAll ==
    /\ pc = "digit"
    /\ digits' = [i \in 1 .. num_bucket_modules |->
                    decompose_scalar_digit(scalar, i - 1, width, shift_ub, oob_limb)]
    /\ pc' = "digit_done"
    /\ UNCHANGED <<shift_ub, junk, oob_limb, scalar, width,
                   points, scalars, npoints, c, num_bucket_modules,
                   bucket_indices, point_indices, tdone,
                   bucket_offsets, bucket_sizes, single_bucket_indices,
                   buckets, final_sum, final_result, launched, M, U, S_, G_, result, history, otherVars>>

NextDigit == DecomposeAll

SpecDigit == InitDigit /\ [][NextDigit]_vars

(***************************************************************************)
(* Natural numbers of any size as sets of bit positions.                   *)
(***************************************************************************)
ShiftUp(x, n) == {b + n : b \in x}

\* the 256-bit integer sum over j of data[j] * 2^(64*j)
ScalarBitSet(s) == UNION {ShiftUp(s[k], LimbBits * k) : k \in 0 .. (LIMBS - 1)}

\* sum over lo <= i <= hi of ds[i] * 2^(w*(i-1))
RECURSIVE RecombineRange(_, _, _, _)
RecombineRange(ds, w, lo, hi) ==
    IF lo > hi THEN {}
    ELSE IF lo = hi THEN ShiftUp(ds[lo], w * (lo - 1))
    ELSE LET mid == (lo + hi) \div 2
         IN  BigAdd(RecombineRange(ds, w, lo, mid), RecombineRange(ds, w, mid + 1, hi))

Recombine(ds, w, n) == RecombineRange(ds, w, 1, n)

\* floor(s / 2^(w*i)) mod 2^w
MathDigit(s, i, w) ==
    {b - w * i : b \in {y \in ScalarBitSet(s) : y >= w * i /\ y < w * i + w}}

\* C6: the digits of a scalar recombine to the scalar, for every window width
\* and every module count that covers the scalar's bits.
C6_DigitsRecombine ==
    pc = "digit_done" => Recombine(digits, width, num_bucket_modules) = ScalarBitSet(scalar)

\* The same statement for window widths below the width of int and module
\* counts that stop at the last limb.
C6_DigitsRecombineNarrow ==
    (pc = "digit_done" /\ width < IntBits - 1
        /\ num_bucket_modules = CeilDiv(ScalarBits, width))
       => /\ Recombine(digits, width, num_bucket_modules) = ScalarBitSet(scalar)
          /\ \A i \in 1 .. num_bucket_modules : digits[i] = MathDigit(scalar, i - 1, width)

(***************************************************************************)
(* The group element sum over z of scalar_z * point_z.                     *)
(***************************************************************************)
RECURSIVE Pow2Mod(_)
Pow2Mod(b) ==
    IF b = 0 THEN 1 % Ord
    ELSE IF b % 2 = 0 THEN LET h == Pow2Mod(b \div 2) IN (h * h) % Ord
    ELSE (2 * Pow2Mod(b - 1)) % Ord

\* sum over the bits b of x with lo <= b <= hi of 2^b, modulo the group order
RECURSIVE SumMod(_, _, _)
SumMod(x, lo, hi) ==
    IF lo = hi THEN (IF lo \in x THEN Pow2Mod(lo) ELSE 0)
    ELSE LET mid == (lo + hi) \div 2
         IN  (SumMod(x, lo, mid) + SumMod(x, mid + 1, hi)) % Ord

\* the scalar as an integer, modulo the group order
ScalarMod(s) == SumMod(ScalarBitSet(s), 0, ScalarBits - 1)

RECURSIVE MathMSM(_, _, _)
MathMSM(ps, ss, n) ==
    IF n = 0 THEN 0
    ELSE (MathMSM(ps, ss, n - 1) + ScalarMod(ss[n - 1]) * GroupValue(ps[n - 1])) % Ord

(***************************************************************************)
(* The naive kernel launched on its own.                                   *)
(***************************************************************************)
InitNaive ==
    /\ pc = "naive"
    /\ shift_ub \in UBModes
    /\ junk \in JunkPoints
    /\ oob_limb = {}
    /\ NoDigitRun /\ NoReduceRun /\ NoHistory /\ NoOtherRun
    /\ npoints \in 0 .. MaxNaivePoints
    /\ points \in [0 .. (npoints - 1) -> InputPoints]
    /\ scalars \in [0 .. (npoints - 1) -> NaiveScalars]
    /\ c = 0 /\ num_bucket_modules = 0
    /\ bucket_indices = <<>> /\ point_indices = <<>> /\ tdone = {}
    /\ bucket_offsets = <<>> /\ bucket_sizes = <<>> /\ single_bucket_indices = <<>>
    /\ buckets = <<>> /\ final_sum = <<>>
    /\ final_result = junk
    /\ launched = {}

LaunchDoubleAndAdd ==
    /\ pc = "naive"
    /\ final_result' = double_and_add_kernel(scalars, points, final_result, npoints, shift_ub)
    /\ launched' = launched \cup {"double_and_add_kernel"}
    /\ pc' = "done"
    /\ UNCHANGED <<shift_ub, junk, oob_limb, scalar, width, digits,
                   points, scalars, npoints, c, num_bucket_modules,
                   bucket_indices, point_indices, tdone,
                   bucket_offsets, bucket_sizes, single_bucket_indices,
                   buckets, final_sum, M, U, S_, G_, result, history, otherVars>>

NextNaive == LaunchDoubleAndAdd

SpecNaive == InitNaive /\ [][NextNaive]_vars

\* C2: double_and_add_kernel leaves in final_result[0] the group element sum
\* over z < num_points of scalar_z * point_z.
C2_NaiveIsMSM ==
    (pc = "done" /\ "double_and_add_kernel" \in launched)
       => GroupValue(final_result) = MathMSM(points, scalars, npoints)

(***************************************************************************)
(* The MSM run: the host dispatches on the input size and launches the     *)
(* stages one after the other, each after the previous one has completed.  *)
(***************************************************************************)
PipelineStages ==
    { "initialize_buckets_kernel", "split_scalars_kernel", "sort",
      "accumulate_buckets_kernel", "bucket_running_sum_kernel",
      "final_accumulation_kernel" }

NumBuckets == num_bucket_modules * Pow2(c)

\* The device buffers of a run with window width w on np points, before any
\* kernel: num_bucket_modules = ceil(scalar bit-length / w), and every element
\* holds what the memory held.
FreshBuffers(w, np) ==
    /\ num_bucket_modules = CeilDiv(ScalarBits, w)
    /\ bucket_indices = [k \in 0 .. (CeilDiv(ScalarBits, w) * np - 1) |-> Unwritten]
    /\ point_indices = [k \in 0 .. (CeilDiv(ScalarBits, w) * np - 1) |-> Unwritten]
    /\ tdone = {}
    /\ bucket_offsets = <<>> /\ bucket_sizes = <<>> /\ single_bucket_indices = <<>>
    /\ buckets = [e \in 0 .. (CeilDiv(ScalarBits, w) * Pow2(w) - 1) |-> junk]
    /\ final_sum = [m \in 0 .. (CeilDiv(ScalarBits, w) - 1) |-> junk]
    /\ final_result = junk
    /\ launched = {}

Init ==
    /\ pc = "start"
    /\ shift_ub \in UBModes
    /\ junk \in JunkPoints
    /\ oob_limb = {}
    /\ NoDigitRun /\ NoReduceRun /\ NoHistory /\ NoOtherRun
    /\ npoints \in 0 .. MaxPoints
    /\ points \in [0 .. (npoints - 1) -> MsmPoints]
    /\ scalars \in [0 .. (npoints - 1) -> MsmScalars]
    /\ c = 1
    /\ FreshBuffers(c, npoints)

\* msm: below the threshold the naive kernel, else the first stage
Dispatch ==
    /\ pc = "start"
    /\ pc' = IF npoints < SmallInputThreshold THEN "naive" ELSE "init_buckets"
    /\ UNCHANGED <<shift_ub, junk, oob_limb, scalar, width, digits,
                   points, scalars, npoints, c, num_bucket_modules,
                   bucket_indices, point_indices, tdone,
                   bucket_offsets, bucket_sizes, single_bucket_indices,
                   buckets, final_sum, final_result, launched, M, U, S_, G_, result, history, otherVars>>

LaunchInitializeBuckets ==
    /\ pc = "init_buckets"
    /\ buckets' = initialize_buckets_kernel(NumBuckets, junk)
    /\ launched' = launched \cup {"initialize_buckets_kernel"}
    /\ pc' = "split"
    /\ UNCHANGED <<shift_ub, junk, oob_limb, scalar, width, digits,
                   points, scalars, npoints, c, num_bucket_modules,
                   bucket_indices, point_indices, tdone,
                   bucket_offsets, bucket_sizes, single_bucket_indices,
                   final_sum, final_result, M, U, S_, G_, result, history, otherVars>>

\* One thread of split_scalars_kernel, launched with one thread per point.
SplitScalarsThread(tid) ==
    /\ pc = "split"
    /\ tid \notin tdone
    /\ \E out \in {split_scalars_kernel(bucket_indices, point_indices, scalars, npoints,
                                        num_bucket_modules, c, tid, shift_ub, oob_limb)} :
           /\ bucket_indices' = out.bucket_indices
           /\ point_indices' = out.point_indices
    /\ tdone' = tdone \cup {tid}
    /\ launched' = launched \cup {"split_scalars_kernel"}
    /\ UNCHANGED <<pc, shift_ub, junk, oob_limb, scalar, width, digits,
                   points, scalars, npoints, c, num_bucket_modules,
                   bucket_offsets, bucket_sizes, single_bucket_indices,
                   buckets, final_sum, final_result, M, U, S_, G_, result, history, otherVars>>

\* The host waits for the kernel: every thread has run.
SplitScalarsDone ==
    /\ pc = "split"
    /\ tdone = 0 .. (npoints - 1)
    /\ pc' = "sort"
    /\ UNCHANGED <<shift_ub, junk, oob_limb, scalar, width, digits,
                   points, scalars, npoints, c, num_bucket_modules,
                   bucket_indices, point_indices, tdone,
                   bucket_offsets, bucket_sizes, single_bucket_indices,
                   buckets, final_sum, final_result, launched, M, U, S_, G_, result, history, otherVars>>

\* The counting sort of one module's keys: the rank of point p of module m.
SortRank(bi, np, m, p) ==
    Cardinality({q \in 0 .. (np - 1) :
        \/ bi[m * np + q] < bi[m * np + p]
        \/ (bi[m * np + q] = bi[m * np + p] /\ q < p)})

SortedSlot(bi, np, k) ==
    LET m == k \div np
    IN  m * np + (CHOOSE p \in 0 .. (np - 1) : SortRank(bi, np, m, p) = k - m * np)

BucketSize(bi, np, w, key) ==
    Cardinality({p \in 0 .. (np - 1) : bi[(key \div Pow2(w)) * np + p] = key})

BucketOffset(bi, np, w, key) ==
    (key \div Pow2(w)) * np
        + Cardinality({p \in 0 .. (np - 1) : bi[(key \div Pow2(w)) * np + p] < key})

SortStage ==
    /\ pc = "sort"
    /\ bucket_indices' = [k \in DOMAIN bucket_indices |->
                            bucket_indices[SortedSlot(bucket_indices, npoints, k)]]
    /\ point_indices' = [k \in DOMAIN point_indices |->
                            point_indices[SortedSlot(bucket_indices, npoints, k)]]
    /\ single_bucket_indices' = [g \in 0 .. (NumBuckets - 1) |-> g]
    /\ bucket_sizes' = [g \in 0 .. (NumBuckets - 1) |->
                            BucketSize(bucket_indices, npoints, c, g)]
    /\ bucket_offsets' = [g \in 0 .. (NumBuckets - 1) |->
                            BucketOffset(bucket_indices, npoints, c, g)]
    /\ launched' = launched \cup {"sort"}
    /\ pc' = "accumulate"
    /\ UNCHANGED <<shift_ub, junk, oob_limb, scalar, width, digits,
                   points, scalars, npoints, c, num_bucket_modules, tdone,
                   buckets, final_sum, final_result, M, U, S_, G_, result, history, otherVars>>

\* accumulate_buckets_kernel, one group per bucket
LaunchAccumulateBuckets ==
    /\ pc = "accumulate"
    /\ \E stores \in {UNION {accumulate_buckets_kernel(buckets, bucket_offsets,
                                bucket_sizes, single_bucket_indices, point_indices,
                                points, NumBuckets, g, junk) : g \in 0 .. (NumBuckets - 1)}} :
          buckets' = [e \in DOMAIN buckets |->
                         IF \E st \in stores : st.index = e
                         THEN (CHOOSE st \in stores : st.index = e).value
                         ELSE buckets[e]]
    /\ launched' = launched \cup {"accumulate_buckets_kernel"}
    /\ pc' = "running_sum"
    /\ UNCHANGED <<shift_ub, junk, oob_limb, scalar, width, digits,
                   points, scalars, npoints, c, num_bucket_modules,
                   bucket_indices, point_indices, tdone,
                   bucket_offsets, bucket_sizes, single_bucket_indices,
                   final_sum, final_result, M, U, S_, G_, result, history, otherVars>>

\* bucket_running_sum_kernel, one group per module
LaunchBucketRunningSum ==
    /\ pc = "running_sum"
    /\ final_sum' = [m \in 0 .. (num_bucket_modules - 1) |->
                        bucket_running_sum_kernel(buckets, c, m)]
    /\ launched' = launched \cup {"bucket_running_sum_kernel"}
    /\ pc' = "final"
    /\ UNCHANGED <<shift_ub, junk, oob_limb, scalar, width, digits,
                   points, scalars, npoints, c, num_bucket_modules,
                   bucket_indices, point_indices, tdone,
                   bucket_offsets, bucket_sizes, single_bucket_indices,
                   buckets, final_result, M, U, S_, G_, result, history, otherVars>>

LaunchFinalAccumulation ==
    /\ pc = "final"
    /\ final_result' = final_accumulation_kernel(final_sum, final_result,
                                                 num_bucket_modules, c, shift_ub, junk)
    /\ launched' = launched \cup {"final_accumulation_kernel"}
    /\ pc' = "done"
    /\ UNCHANGED <<shift_ub, junk, oob_limb, scalar, width, digits,
                   points, scalars, npoints, c, num_bucket_modules,
                   bucket_indices, point_indices, tdone,
                   bucket_offsets, bucket_sizes, single_bucket_indices,
                   buckets, final_sum, M, U, S_, G_, result, history, otherVars>>

\* The caller runs the same input again with the next window width, on
\* freshly allocated buffers, keeping the result of the finished run.
RunAgain ==
    /\ pc = "done"
    /\ c < MaxC
    /\ history' = [w \in 1 .. c |-> IF w = c THEN final_result ELSE history[w]]
    /\ c' = c + 1
    /\ num_bucket_modules' = CeilDiv(ScalarBits, c + 1)
    /\ bucket_indices' = [k \in 0 .. (CeilDiv(ScalarBits, c + 1) * npoints - 1) |-> Unwritten]
    /\ point_indices' = [k \in 0 .. (CeilDiv(ScalarBits, c + 1) * npoints - 1) |-> Unwritten]
    /\ tdone' = {}
    /\ bucket_offsets' = <<>> /\ bucket_sizes' = <<>> /\ single_bucket_indices' = <<>>
    /\ buckets' = [e \in 0 .. (CeilDiv(ScalarBits, c + 1) * Pow2(c + 1) - 1) |-> junk]
    /\ final_sum' = [m \in 0 .. (CeilDiv(ScalarBits, c + 1) - 1) |-> junk]
    /\ final_result' = junk
    /\ launched' = {}
    /\ pc' = "start"
    /\ UNCHANGED <<shift_ub, junk, oob_limb, scalar, width, digits,
                   points, scalars, npoints, M, U, S_, G_, result, otherVars>>

Next ==
    \/ Dispatch
    \/ LaunchDoubleAndAdd
    \/ LaunchInitializeBuckets
    \/ \E tid \in 0 .. (npoints - 1) : SplitScalarsThread(tid)
    \/ SplitScalarsDone
    \/ SortStage
    \/ LaunchAccumulateBuckets
    \/ LaunchBucketRunningSum
    \/ LaunchFinalAccumulation
    \/ RunAgain

Spec == Init /\ [][Next]_vars

(***************************************************************************)
(* Properties of the pipeline.                                             *)
(***************************************************************************)

\* The group sum of the points whose digit in the bucket's module is the
\* bucket's digit.
RECURSIVE MathBucket(_, _, _, _, _)
MathBucket(ps, ss, n, w, key) ==
    IF n = 0 THEN 0
    ELSE LET rest == MathBucket(ps, ss, n - 1, w, key)
             d == BitsToNat(MathDigit(ss[n - 1], key \div Pow2(w), w))
         IN  IF d = key % Pow2(w) THEN (rest + GroupValue(ps[n - 1])) % Ord ELSE rest

OnBucketPath == "final_accumulation_kernel" \in launched

\* C1: for every input, the result of the bucket pipeline is the group element
\* the naive double-and-add kernel computes for the same input.
C1_PipelineEqualsNaive ==
    (pc = "done" /\ OnBucketPath) =>
        GroupValue(final_result) =
            GroupValue(double_and_add_kernel(scalars, points, junk, npoints, shift_ub))

\* C5: after accumulate_buckets_kernel, every bucket with a non-zero digit and
\* at least one point holds the group sum of the points assigned to it.
C5_BucketsHoldSums ==
    pc = "running_sum" =>
        \A key \in 0 .. (NumBuckets - 1) :
            (key % Pow2(c) # 0 /\ bucket_sizes[key] > 0) =>
                GroupValue(buckets[single_bucket_indices[key]]) =
                    MathBucket(points, scalars, npoints, c, key)

\* C7: after split_scalars_kernel, for every point p and module i the slot
\* i * npoints + p of bucket_indices holds (i << c) | digit_i(scalar_p) and the
\* same slot of point_indices holds p, so that every point appears exactly
\* once in every module.
C7_SplitScalars ==
    pc = "sort" =>
        /\ \A p \in 0 .. (npoints - 1) : \A i \in 0 .. (num_bucket_modules - 1) :
              /\ bucket_indices[i * npoints + p] =
                     i * Pow2(c) + BitsToNat(MathDigit(scalars[p], i, c))
              /\ point_indices[i * npoints + p] = p
        /\ \A p \in 0 .. (npoints - 1) : \A i \in 0 .. (num_bucket_modules - 1) :
              Cardinality({k \in (i * npoints) .. ((i + 1) * npoints - 1) :
                              point_indices[k] = p}) = 1

\* Two points with different scalars have been split with a window that
\* straddles a limb boundary.
C7_Witness ==
    /\ pc = "sort"
    /\ npoints >= 2
    /\ scalars[0] # scalars[1]
    /\ LimbBits % c # 0
    /\ \E p \in 0 .. (npoints - 1) :
          bucket_indices[(LimbBits \div c) * npoints + p] > (LimbBits \div c) * Pow2(c)

\* C9: on one input, the runs with different window widths c end with the
\* same group element.
C9_WidthIndependent ==
    (pc = "done" /\ OnBucketPath) =>
        \A w \in DOMAIN history : GroupValue(history[w]) = GroupValue(final_result)

\* C10: with no points, msm returns the identity (the all-zero triple) and
\* launches no stage of the bucket pipeline.
C10_EmptyInput ==
    (pc = "done" /\ npoints = 0) =>
        /\ is_zero(final_result)
        /\ launched \cap PipelineStages = {}

\* The empty input has been served, into a result buffer that held something
\* else.
C10_Witness ==
    /\ pc = "done"
    /\ npoints = 0
    /\ "double_and_add_kernel" \in launched
    /\ ~is_zero(junk)

(***************************************************************************)
(* final_accumulation_kernel on its own: any module contributions, any     *)
(* window width and module count passed to it.                             *)
(***************************************************************************)
MaxFinalC == 3
MaxFinalModules == 2
ContributionPoints == {0, 1, 2}

InitFinal ==
    /\ pc = "final"
    /\ shift_ub \in UBModes
    /\ junk \in JunkPoints
    /\ oob_limb = {}
    /\ NoDigitRun /\ NoReduceRun /\ NoHistory /\ NoOtherRun
    /\ npoints = 0 /\ points = <<>> /\ scalars = <<>>
    /\ c \in 1 .. MaxFinalC
    /\ num_bucket_modules \in 1 .. MaxFinalModules
    /\ bucket_indices = <<>> /\ point_indices = <<>> /\ tdone = {}
    /\ bucket_offsets = <<>> /\ bucket_sizes = <<>> /\ single_bucket_indices = <<>>
    /\ buckets = <<>>
    /\ final_sum \in [0 .. (num_bucket_modules - 1) -> ContributionPoints]
    /\ final_result = junk
    /\ launched = {}

NextFinal == LaunchFinalAccumulation

SpecFinal == InitFinal /\ [][NextFinal]_vars

\* sum over i < n of fsum[i] * 2^(w*i), in the group
RECURSIVE MathFinal(_, _, _)
MathFinal(fsum, w, n) ==
    IF n = 0 THEN 0
    ELSE (MathFinal(fsum, w, n - 1)
            + GroupValue(fsum[n - 1]) * (Pow2(w * (n - 1)) % Ord)) % Ord

\* C4: for every num_bucket_modules and c passed to it,
\* final_accumulation_kernel leaves in final_result the sum over the modules
\* i of final_sum[i] * 2^(c*i).
C4_FinalIsPositionalSum ==
    pc = "done" =>
        GroupValue(final_result) = MathFinal(final_sum, c, num_bucket_modules)

(***************************************************************************)
(* The two reducers on the same buckets: the plain one, then the windowed  *)
(* one with M segments of U buckets per module.                            *)
(***************************************************************************)
MaxReduceC == 2
MaxReduceModules == 2
BucketPoints == {0, 1, Ord - 1}

InitReduce ==
    /\ pc = "plain"
    /\ shift_ub = "clamp"
    /\ junk \in JunkPoints
    /\ oob_limb = {}
    /\ NoDigitRun /\ NoHistory /\ NoOtherRun
    /\ npoints = 0 /\ points = <<>> /\ scalars = <<>>
    /\ c \in 1 .. MaxReduceC
    /\ num_bucket_modules \in 1 .. MaxReduceModules
    /\ bucket_indices = <<>> /\ point_indices = <<>> /\ tdone = {}
    /\ bucket_offsets = <<>> /\ bucket_sizes = <<>> /\ single_bucket_indices = <<>>
    /\ buckets \in [0 .. (NumBuckets - 1) -> BucketPoints]
    /\ final_sum = [m \in 0 .. (num_bucket_modules - 1) |-> junk]
    /\ final_result = junk
    /\ launched = {}
    /\ \E e \in 0 .. c : M = Pow2(e) /\ U = Pow2(c - e)
    /\ S_ = [b \in 0 .. (num_bucket_modules * M - 1) |-> junk]
    /\ G_ = [b \in 0 .. (num_bucket_modules * M - 1) |-> junk]
    /\ result = [m \in 0 .. (num_bucket_modules - 1) |-> junk]

\* bucket_running_sum_kernel, one group per module
LaunchPlainReducer ==
    /\ pc = "plain"
    /\ final_sum' = [m \in 0 .. (num_bucket_modules - 1) |->
                        bucket_running_sum_kernel(buckets, c, m)]
    /\ launched' = launched \cup {"bucket_running_sum_kernel"}
    /\ pc' = "windowed_2"
    /\ UNCHANGED <<shift_ub, junk, oob_limb, scalar, width, digits,
                   points, scalars, npoints, c, num_bucket_modules,
                   bucket_indices, point_indices, tdone,
                   bucket_offsets, bucket_sizes, single_bucket_indices,
                   buckets, final_result, M, U, S_, G_, result, history, otherVars>>

\* bucket_running_sum_kernel_2, one block of one group per segment
LaunchRunningSum2 ==
    /\ pc = "windowed_2"
    /\ S_' = [b \in DOMAIN S_ |-> bucket_running_sum_kernel_2(buckets, M, U, b, junk).S]
    /\ G_' = [b \in DOMAIN G_ |-> bucket_running_sum_kernel_2(buckets, M, U, b, junk).G]
    /\ launched' = launched \cup {"bucket_running_sum_kernel_2"}
    /\ pc' = "windowed_3"
    /\ UNCHANGED <<shift_ub, junk, oob_limb, scalar, width, digits,
                   points, scalars, npoints, c, num_bucket_modules,
                   bucket_indices, point_indices, tdone,
                   bucket_offsets, bucket_sizes, single_bucket_indices,
                   buckets, final_sum, final_result, M, U, result, history, otherVars>>

\* bucket_running_sum_kernel_3, one block of one group per module
LaunchRunningSum3 ==
    /\ pc = "windowed_3"
    /\ result' = [m \in DOMAIN result |->
                     bucket_running_sum_kernel_3(S_, G_, M, U, m, junk)]
    /\ launched' = launched \cup {"bucket_running_sum_kernel_3"}
    /\ pc' = "reduced"
    /\ UNCHANGED <<shift_ub, junk, oob_limb, scalar, width, digits,
                   points, scalars, npoints, c, num_bucket_modules,
                   bucket_indices, point_indices, tdone,
                   bucket_offsets, bucket_sizes, single_bucket_indices,
                   buckets, final_sum, final_result, M, U, S_, G_, history, otherVars>>

NextReduce ==
    \/ LaunchPlainReducer
    \/ LaunchRunningSum2
    \/ LaunchRunningSum3

SpecReduce == InitReduce /\ [][NextReduce]_vars

\* sum over d = 1 .. n of d * bk[base + d], in the group
RECURSIVE WeightedSum(_, _, _)
WeightedSum(bk, base, n) ==
    IF n = 0 THEN 0
    ELSE (WeightedSum(bk, base, n - 1) + n * GroupValue(bk[base + n])) % Ord

\* C3: for every module m and window width c, bucket_running_sum_kernel sets
\* final_sum[m] to the sum over d = 1 .. 2^c - 1 of d * buckets[m * 2^c + d].
C3_RunningSumIsWeightedSum ==
    "bucket_running_sum_kernel" \in launched =>
        \A m \in 0 .. (num_bucket_modules - 1) :
            GroupValue(final_sum[m]) = WeightedSum(buckets, m * Pow2(c), Pow2(c) - 1)

\* C8: for every segmentation with M * U = 2^c, the windowed reducer
\* (kernel 2, then kernel 3) gives every module the contribution the plain
\* reducer gives it on the same buckets.
C8_WindowedEqualsPlain ==
    pc = "reduced" =>
        \A m \in 0 .. (num_bucket_modules - 1) :
            GroupValue(result[m]) = GroupValue(final_sum[m])

(***************************************************************************)
(* msm on scalars that are all zero, through the naive kernel and through  *)
(* the bucket pipeline.                                                    *)
(***************************************************************************)
ZeroScalar == Fr({}, {}, {}, {})

InitZero ==
    /\ pc \in {"naive", "init_buckets"}
    /\ shift_ub \in UBModes
    /\ junk \in JunkPoints
    /\ oob_limb = {}
    /\ NoDigitRun /\ NoReduceRun /\ NoHistory /\ NoOtherRun
    /\ npoints \in 1 .. MaxPoints
    /\ points \in [0 .. (npoints - 1) -> MsmPoints]
    /\ scalars = [z \in 0 .. (npoints - 1) |-> ZeroScalar]
    /\ c \in 1 .. MaxC
    /\ FreshBuffers(c, npoints)

NextZero ==
    \/ LaunchDoubleAndAdd
    \/ LaunchInitializeBuckets
    \/ \E tid \in 0 .. (npoints - 1) : SplitScalarsThread(tid)
    \/ SplitScalarsDone
    \/ SortStage
    \/ LaunchAccumulateBuckets
    \/ LaunchBucketRunningSum
    \/ LaunchFinalAccumulation

SpecZero == InitZero /\ [][NextZero]_vars

\* C11: with n >= 1 points and every scalar zero, the result is the identity
\* (the all-zero triple), through double_and_add_kernel and through the
\* bucket pipeline alike.
C11_ZeroScalarsGiveIdentity ==
    (pc = "done" /\ npoints >= 1) => is_zero(final_result)

\* The part of C11 that is about the naive kernel.
C11_NaiveZeroScalars ==
    (pc = "done" /\ "double_and_add_kernel" \in launched) => is_zero(final_result)

(***************************************************************************)
(* falafel: TxFeeAllocator, as tx_fee_allocator.test.ts drives it.  A tx   *)
(* is [fee, assetId, txType, bridgeId]; the fee resolver is the test's     *)
(* mock.                                                                   *)
(***************************************************************************)
\* enum TxType
DEPOSIT == 0
TRANSFER == 1
WITHDRAW_TO_WALLET == 2
WITHDRAW_TO_CONTRACT == 3
ACCOUNT == 4
DEFI_DEPOSIT == 5
DEFI_CLAIM == 6

BASE_GAS == 20000
feeConstants == <<10000, 10000, 50000, 60000, 0, 50000, 30000>>
NON_FEE_PAYING_ASSET == 9999

bridgeConfigs ==
    << [bridgeId |-> 1, numTxs |-> 5, fee |-> 500000, rollupFrequency |-> 2],
       [bridgeId |-> 2, numTxs |-> 10, fee |-> 2000000, rollupFrequency |-> 4] >>

BridgeConfigOf(bridgeId) ==
    CHOOSE bc \in {bridgeConfigs[k] : k \in DOMAIN bridgeConfigs} : bc.bridgeId = bridgeId

getBridgeCost(bridgeId) == BridgeConfigOf(bridgeId).fee

getSingleBridgeCost(bridgeId) ==
    LET fee == BridgeConfigOf(bridgeId).fee
        numTxs == BridgeConfigOf(bridgeId).numTxs
        single == fee \div numTxs
    IN  IF fee % numTxs > 0 THEN single + 1 ELSE single

getTxGasWithBase(txType) == feeConstants[txType + 1] + BASE_GAS

\* the feeResolver mock
\* a resolver for which no fee pays for gas
getGasPaidForByFee_nothing(assetId, fee) == 0

\* a resolver for which a fee pays for twice its gas
getGasPaidForByFee_twice(assetId, fee) == 2 * fee

getGasPaidForByFee(assetId, fee) == fee

\* a resolver that leaves the base gas out of a tx's gas
getTxGas_no_base(assetId, txType) == feeConstants[txType + 1]

\* a resolver that charges every tx as a transfer
getTxGas_transfer(assetId, txType) == getTxGasWithBase(TRANSFER)

getTxGas(assetId, txType) == getTxGasWithBase(txType)

\* a resolver that charges a defi deposit the whole bridge
getBridgeTxGas_full_bridge(assetId, bridgeId) ==
    getBridgeCost(bridgeId) + getTxGasWithBase(DEFI_DEPOSIT)

getBridgeTxGas(assetId, bridgeId) ==
    getSingleBridgeCost(bridgeId) + getTxGasWithBase(DEFI_DEPOSIT)

\* a resolver for which every asset pays fees
isFeePayingAsset_any_asset(assetId) == assetId < NON_FEE_PAYING_ASSET + 1

\* a resolver for which only asset 0 pays fees
isFeePayingAsset_only_zero(assetId) == assetId < 1

isFeePayingAsset(assetId) == assetId < 3

mockTx(fee, assetId, txType, bridgeId) ==
    [fee |-> fee, assetId |-> assetId, txType |-> txType, bridgeId |-> bridgeId]

mockDefiBridgeTx(fee, bridgeId, assetId) == mockTx(fee, assetId, DEFI_DEPOSIT, bridgeId)

preciselyFundedTx(txType, assetId, excessGas) ==
    mockTx(getTxGasWithBase(txType) + excessGas, assetId, txType, 0)

\* The gas one tx needs: a DEFI deposit pays its bridge share and its claim.
TxGasCost(feePayingAsset, tx) ==
    IF tx.txType = DEFI_DEPOSIT
    THEN getBridgeTxGas(feePayingAsset, tx.bridgeId) + getTxGas(feePayingAsset, DEFI_CLAIM)
    ELSE getTxGas(feePayingAsset, tx.txType)

\* The loop over the txs that collects the fee-paying asset ids.
RECURSIVE FeePayingAssetsLoop(_, _, _)
FeePayingAssetsLoop(ts, i, acc) ==
    IF i > Len(ts) THEN acc
    ELSE FeePayingAssetsLoop(ts, i + 1,
            IF isFeePayingAsset(ts[i].assetId) THEN acc \cup {ts[i].assetId} ELSE acc)

\* The loop over the txs that totals the gas.
RECURSIVE GasLoop(_, _, _, _)
GasLoop(ts, i, feePayingAsset, acc) ==
    IF i > Len(ts) THEN acc
    ELSE LET tx == ts[i]
             paying == tx.assetId = feePayingAsset
         IN  GasLoop(ts, i + 1, feePayingAsset,
                [ feePayingAsset |-> feePayingAsset,
                  gasRequired |-> acc.gasRequired + TxGasCost(feePayingAsset, tx),
                  gasProvided |-> IF paying
                                  THEN acc.gasProvided + getGasPaidForByFee(feePayingAsset, tx.fee)
                                  ELSE acc.gasProvided,
                  hasNonFeePayingAssets |-> acc.hasNonFeePayingAssets \/ ~paying,
                  hasNonPayingDefi |-> acc.hasNonPayingDefi
                                          \/ (~paying /\ tx.txType = DEFI_DEPOSIT) ])

ExactlyOneFeePayingAsset == "Transactions must have exactly 1 fee paying asset"

\* TxFeeAllocator.validateReceivedTxs: the validation, or what it throws
validateReceivedTxs(ts) ==
    LET feePayingAssets == FeePayingAssetsLoop(ts, 1, {})
    IN  IF Cardinality(feePayingAssets) # 1
        THEN [thrown |-> ExactlyOneFeePayingAsset]
        ELSE GasLoop(ts, 1, CHOOSE a \in feePayingAssets : TRUE,
                     [ feePayingAsset |-> CHOOSE a \in feePayingAssets : TRUE,
                       gasRequired |-> 0, gasProvided |-> 0,
                       hasNonFeePayingAssets |-> FALSE, hasNonPayingDefi |-> FALSE ])

\* The index of the first tx in a non-fee-paying asset, 0 when there is none.
RECURSIVE FirstNonFeePaying(_, _, _)
FirstNonFeePaying(ts, i, feePayingAsset) ==
    IF i > Len(ts) THEN 0
    ELSE IF ts[i].assetId # feePayingAsset THEN i
    ELSE FirstNonFeePaying(ts, i + 1, feePayingAsset)

\* TxFeeAllocator.reallocateGas: the excessGas of every dao afterwards
reallocateGas(daos, ts, v) ==
    IF v.gasProvided <= v.gasRequired THEN daos
    ELSE IF v.hasNonFeePayingAssets
    THEN [i \in DOMAIN daos |->
            IF i = FirstNonFeePaying(ts, 1, v.feePayingAsset)
            THEN v.gasProvided - v.gasRequired
            ELSE daos[i]]
    ELSE [i \in DOMAIN daos |->
            getGasPaidForByFee(v.feePayingAsset, ts[i].fee) - TxGasCost(v.feePayingAsset, ts[i])]

\* What a test expects of validateReceivedTxs.
Expect(feePayingAsset, gasProvided, gasRequired, hasNonFeePayingAssets, hasNonPayingDefi) ==
    [ feePayingAsset |-> feePayingAsset, gasRequired |-> gasRequired,
      gasProvided |-> gasProvided, hasNonFeePayingAssets |-> hasNonFeePayingAssets,
      hasNonPayingDefi |-> hasNonPayingDefi ]

\* The defi cost the tests write out
DefiCost == getTxGasWithBase(DEFI_DEPOSIT) + getSingleBridgeCost(1) + getTxGasWithBase(DEFI_CLAIM)

\* The tests of tx_fee_allocator.test.ts: the txs, the validation expected
\* and the excessGas expected after reallocateGas (<<>> when not asserted).
TestVectors ==
    { [ txs |-> << preciselyFundedTx(TRANSFER, NON_FEE_PAYING_ASSET, 0),
                   preciselyFundedTx(TRANSFER, NON_FEE_PAYING_ASSET, 0) >>,
        validation |-> [thrown |-> ExactlyOneFeePayingAsset], excessGas |-> <<>> ],
      [ txs |-> << preciselyFundedTx(TRANSFER, 0, 0), preciselyFundedTx(TRANSFER, 1, 0) >>,
        validation |-> [thrown |-> ExactlyOneFeePayingAsset], excessGas |-> <<>> ],
      [ txs |-> << preciselyFundedTx(TRANSFER, 0, 0),
                   preciselyFundedTx(TRANSFER, NON_FEE_PAYING_ASSET, 0) >>,
        validation |-> Expect(0, getTxGasWithBase(TRANSFER), getTxGasWithBase(TRANSFER) * 2,
                              TRUE, FALSE),
        excessGas |-> <<>> ],
      [ txs |-> << preciselyFundedTx(TRANSFER, 0, 0),
                   mockDefiBridgeTx(getTxGasWithBase(DEFI_DEPOSIT) + getSingleBridgeCost(1),
                                    1, NON_FEE_PAYING_ASSET) >>,
        validation |-> Expect(0, getTxGasWithBase(TRANSFER),
                              getTxGasWithBase(TRANSFER) + DefiCost, TRUE, TRUE),
        excessGas |-> <<>> ],
      [ txs |-> << preciselyFundedTx(ACCOUNT, 1, 10), preciselyFundedTx(DEPOSIT, 1, 11),
                   preciselyFundedTx(TRANSFER, 1, 12),
                   preciselyFundedTx(WITHDRAW_TO_CONTRACT, 1, 13),
                   preciselyFundedTx(WITHDRAW_TO_WALLET, 1, 14),
                   mockDefiBridgeTx(DefiCost + 15, 1, 1) >>,
        validation |-> Expect(1,
                          getTxGasWithBase(ACCOUNT) + getTxGasWithBase(DEPOSIT)
                              + getTxGasWithBase(TRANSFER)
                              + getTxGasWithBase(WITHDRAW_TO_CONTRACT)
                              + getTxGasWithBase(WITHDRAW_TO_WALLET)
                              + DefiCost + (10 + 11 + 12 + 13 + 14 + 15),
                          getTxGasWithBase(ACCOUNT) + getTxGasWithBase(DEPOSIT)
                              + getTxGasWithBase(TRANSFER)
                              + getTxGasWithBase(WITHDRAW_TO_CONTRACT)
                              + getTxGasWithBase(WITHDRAW_TO_WALLET) + DefiCost,
                          FALSE, FALSE),
        excessGas |-> <<10, 11, 12, 13, 14, 15>> ],
      [ txs |-> << preciselyFundedTx(TRANSFER, 1, getTxGasWithBase(TRANSFER)),
                   preciselyFundedTx(TRANSFER, NON_FEE_PAYING_ASSET, 0) >>,
        validation |-> Expect(1, getTxGasWithBase(TRANSFER) * 2,
                              getTxGasWithBase(TRANSFER) * 2, TRUE, FALSE),
        excessGas |-> <<0, 0>> ],
      [ txs |-> << preciselyFundedTx(TRANSFER, 1, getTxGasWithBase(TRANSFER) + 50),
                   preciselyFundedTx(TRANSFER, NON_FEE_PAYING_ASSET, 0) >>,
        validation |-> Expect(1, getTxGasWithBase(TRANSFER) * 2 + 50,
                              getTxGasWithBase(TRANSFER) * 2, TRUE, FALSE),
        excessGas |-> <<0, 50>> ],
      [ txs |-> << preciselyFundedTx(ACCOUNT, 1, 0),
                   preciselyFundedTx(DEPOSIT, 1, getTxGasWithBase(TRANSFER)
                       + getTxGasWithBase(WITHDRAW_TO_CONTRACT) * 2
                       + getTxGasWithBase(WITHDRAW_TO_WALLET) + 101),
                   preciselyFundedTx(TRANSFER, 1, 0),
                   preciselyFundedTx(TRANSFER, NON_FEE_PAYING_ASSET, 0),
                   preciselyFundedTx(WITHDRAW_TO_CONTRACT, 1, 0),
                   preciselyFundedTx(WITHDRAW_TO_CONTRACT, NON_FEE_PAYING_ASSET, 0),
                   preciselyFundedTx(WITHDRAW_TO_CONTRACT, NON_FEE_PAYING_ASSET, 0),
                   preciselyFundedTx(WITHDRAW_TO_WALLET, 1, 0),
                   preciselyFundedTx(WITHDRAW_TO_WALLET, NON_FEE_PAYING_ASSET, 0) >>,
        validation |-> Expect(1,
                          getTxGasWithBase(ACCOUNT) + getTxGasWithBase(DEPOSIT)
                              + getTxGasWithBase(TRANSFER)
                              + getTxGasWithBase(WITHDRAW_TO_CONTRACT)
                              + getTxGasWithBase(WITHDRAW_TO_WALLET)
                              + (getTxGasWithBase(TRANSFER)
                                 + getTxGasWithBase(WITHDRAW_TO_CONTRACT) * 2
                                 + getTxGasWithBase(WITHDRAW_TO_WALLET) + 101),
                          getTxGasWithBase(ACCOUNT) + getTxGasWithBase(DEPOSIT)
                              + getTxGasWithBase(TRANSFER) * 2
                              + getTxGasWithBase(WITHDRAW_TO_CONTRACT) * 3
                              + getTxGasWithBase(WITHDRAW_TO_WALLET) * 2,
                          TRUE, FALSE),
        excessGas |-> <<0, 0, 0, 101, 0, 0, 0, 0, 0>> ],
      [ txs |-> << preciselyFundedTx(TRANSFER, 1, DefiCost), mockDefiBridgeTx(0, 1, 1) >>,
        validation |-> Expect(1, getTxGasWithBase(TRANSFER) + DefiCost,
                              getTxGasWithBase(TRANSFER) + DefiCost, FALSE, FALSE),
        excessGas |-> <<0, 0>> ],
      [ txs |-> << preciselyFundedTx(TRANSFER, 1,
                       getTxGasWithBase(DEFI_DEPOSIT) + getBridgeCost(1)
                           + getTxGasWithBase(DEFI_CLAIM)),
                   mockDefiBridgeTx(0, 1, NON_FEE_PAYING_ASSET) >>,
        validation |-> Expect(1,
                          getTxGasWithBase(TRANSFER) + getTxGasWithBase(DEFI_DEPOSIT)
                              + getBridgeCost(1) + getTxGasWithBase(DEFI_CLAIM),
                          getTxGasWithBase(TRANSFER) + DefiCost, TRUE, TRUE),
        excessGas |-> <<0, (BridgeConfigOf(1).numTxs - 1) * getSingleBridgeCost(1)>> ] }

MaxTxs == 3

\* a fee in excess of a tx's cost that pays for one more tx, and 50 more
SurplusGas == DefiCost + 50

GeneratedTxs ==
    UNION { { mockTx(fee, assetId, tx.txType, tx.bridgeId) :
                fee \in { 0, TxGasCost(0, tx), TxGasCost(0, tx) + SurplusGas },
                assetId \in {0, 1, NON_FEE_PAYING_ASSET} } :
            tx \in { mockTx(0, 0, TRANSFER, 0), mockTx(0, 0, DEFI_DEPOSIT, 1) } }

InitFee ==
    /\ pc = "received"
    /\ NoKernelRun /\ NoSdkRun /\ NoLaunchRun
    /\ \/ \E n \in 0 .. MaxTxs : txs \in [1 .. n -> GeneratedTxs]
       \/ \E t \in TestVectors : txs = t.txs
    /\ validation = <<>>
    /\ txDaos = [i \in 1 .. Len(txs) |-> 0]

kernelVars == <<shift_ub, junk, oob_limb, scalar, width, digits,
                points, scalars, npoints, c, num_bucket_modules,
                bucket_indices, point_indices, tdone,
                bucket_offsets, bucket_sizes, single_bucket_indices,
                buckets, final_sum, final_result, launched, M, U, S_, G_, result, history>>

ValidateReceivedTxs ==
    /\ pc = "received"
    /\ validation' = validateReceivedTxs(txs)
    /\ pc' = IF "thrown" \in DOMAIN validation' THEN "rejected" ELSE "validated"
    /\ UNCHANGED <<kernelVars, sdkVars, launchVars, txs, txDaos>>

ReallocateGas ==
    /\ pc = "validated"
    /\ txDaos' = reallocateGas(txDaos, txs, validation)
    /\ pc' = "reallocated"
    /\ UNCHANGED <<kernelVars, sdkVars, launchVars, txs, validation>>

NextFee ==
    \/ ValidateReceivedTxs
    \/ ReallocateGas

SpecFee == InitFee /\ [][NextFee]_vars

\* Every test of the test file finds what it expects.
TestsPass ==
    \A t \in TestVectors :
        txs = t.txs =>
            /\ pc # "received" => validation = t.validation
            /\ (pc = "reallocated" /\ t.excessGas # <<>>) => txDaos = t.excessGas

(***************************************************************************)
(* Properties of TxFeeAllocator.                                           *)
(***************************************************************************)
RECURSIVE SeqSum(_)
SeqSum(q) == IF q = <<>> THEN 0 ELSE q[Len(q)] + SeqSum(SubSeq(q, 1, Len(q) - 1))

Thrown == "thrown" \in DOMAIN validation

\* the distinct fee-paying asset ids the txs use
UsedFeePayingAssets == {txs[i].assetId : i \in {k \in DOMAIN txs : isFeePayingAsset(txs[k].assetId)}}

NonPayingTxs == {i \in DOMAIN txs : ~isFeePayingAsset(txs[i].assetId)}

\* the tests whose input the run has
RunTests == {t \in TestVectors : t.txs = txs}

ProvidedBy(i) == getGasPaidForByFee(txs[i].assetId, txs[i].fee)

RequiredBy(i) ==
    IF txs[i].txType = DEFI_DEPOSIT
    THEN getBridgeTxGas(txs[i].assetId, txs[i].bridgeId) + getTxGas(txs[i].assetId, DEFI_CLAIM)
    ELSE getTxGas(txs[i].assetId, txs[i].txType)

NoneProvidedTest ==
    [ txs |-> << preciselyFundedTx(TRANSFER, 0, 0), preciselyFundedTx(TRANSFER, 0, 0) >>,
      excessGas |-> <<0, 0>> ]

C27_SurplusConserved ==
    (pc = "reallocated" /\ validation.gasProvided >= validation.gasRequired) =>
        /\ \A i \in DOMAIN txDaos : txDaos[i] >= 0
        /\ SeqSum(txDaos) = validation.gasProvided - validation.gasRequired

\* the excessGas of the txs add up to the surplus
C27_SumIsSurplus ==
    (pc = "reallocated" /\ validation.gasProvided >= validation.gasRequired) =>
        SeqSum(txDaos) = validation.gasProvided - validation.gasRequired

(***************************************************************************)
(* sdk: createCoreSdk.  Every instance is made by createCoreSdk with its   *)
(* own options; the instances with syncInstances share the broadcast       *)
(* channel 'aztec-sdk' and one leader election.  CoreSdk and the           *)
(* broadcast-channel package are not part of the source: an sdk walks      *)
(* through its init states and emits UPDATED_INIT_STATE at each, the       *)
(* election makes an elector leader only while no live elector is, and     *)
(* closing the channel ends its elector.                                   *)
(***************************************************************************)
MaxInstances == 3

Instances == 1 .. MaxInstances

UNINITIALIZED == "UNINITIALIZED"
INITIALIZING == "INITIALIZING"
INITIALIZED == "INITIALIZED"
DESTROYED == "DESTROYED"

InitSdk ==
    /\ pc = "sdk"
    /\ NoKernelRun /\ NoFeeRun /\ NoLaunchRun
    /\ syncInstances \in [Instances -> BOOLEAN]
    /\ initState = [i \in Instances |-> UNINITIALIZED]
    /\ isLeader = [i \in Instances |-> FALSE]
    /\ leadershipResolved = [i \in Instances |-> "no"]
    /\ startReceivingBlocksCalls = [i \in Instances |-> <<>>]

\* sdk.startReceivingBlocks(), with what holds at the call
startReceivingBlocks(calls, i, state) ==
    [calls EXCEPT ![i] = Append(@, [isLeader |-> isLeader[i], initState |-> state])]

\* a callback that starts nothing
StartOnLeadership_never(state) == FALSE

\* the condition of the awaitLeadership().then callback
StartOnLeadership(state) == state = INITIALIZED

\* a handler that starts whoever is initialized
StartOnInitState_any_instance(state, leader) == state = INITIALIZED

\* the condition of the UPDATED_INIT_STATE handler with syncInstances
StartOnInitState(state, leader) == state = INITIALIZED /\ leader

\* the condition of the UPDATED_INIT_STATE handler without syncInstances
StartOnInitStateAlone(state) == state = INITIALIZED

\* the sdk moves to `state` and emits UPDATED_INIT_STATE(state); the handler
\* createCoreSdk registered runs within the emit
UpdatedInitState(i, state) ==
    /\ initState' = [initState EXCEPT ![i] = state]
    /\ IF ~syncInstances[i]
       THEN /\ startReceivingBlocksCalls' =
                  IF StartOnInitStateAlone(state)
                  THEN startReceivingBlocks(startReceivingBlocksCalls, i, state)
                  ELSE startReceivingBlocksCalls
            /\ UNCHANGED isLeader
       ELSE IF StartOnInitState(state, isLeader[i])
       THEN /\ startReceivingBlocksCalls' =
                  startReceivingBlocks(startReceivingBlocksCalls, i, state)
            /\ UNCHANGED isLeader
       ELSE IF state = DESTROYED
       THEN \* channel.close(): the elector of the channel dies
            /\ isLeader' = [isLeader EXCEPT ![i] = FALSE]
            /\ UNCHANGED startReceivingBlocksCalls
       ELSE UNCHANGED <<isLeader, startReceivingBlocksCalls>>
    /\ UNCHANGED <<pc, kernelVars, feeVars, launchVars, syncInstances, leadershipResolved>>

SdkInit(i) == initState[i] = UNINITIALIZED /\ UpdatedInitState(i, INITIALIZING)

SdkInitialized(i) == initState[i] = INITIALIZING /\ UpdatedInitState(i, INITIALIZED)

SdkDestroy(i) == initState[i] # DESTROYED /\ UpdatedInitState(i, DESTROYED)

\* the election makes instance i the leader: awaitLeadership() resolves
ElectLeader(i) ==
    /\ syncInstances[i]
    /\ initState[i] # DESTROYED
    /\ \A j \in Instances : syncInstances[j] => ~isLeader[j]
    /\ leadershipResolved[i] = "no"
    /\ isLeader' = [isLeader EXCEPT ![i] = TRUE]
    /\ leadershipResolved' = [leadershipResolved EXCEPT ![i] = "yes"]
    /\ UNCHANGED <<pc, kernelVars, feeVars, launchVars, syncInstances, initState,
                   startReceivingBlocksCalls>>

\* the callback of awaitLeadership().then runs, once, some time after the
\* promise resolved
LeadershipCallback(i) ==
    /\ leadershipResolved[i] = "yes"
    /\ leadershipResolved' = [leadershipResolved EXCEPT ![i] = "handled"]
    /\ startReceivingBlocksCalls' =
          IF StartOnLeadership(initState[i])
          THEN startReceivingBlocks(startReceivingBlocksCalls, i, initState[i])
          ELSE startReceivingBlocksCalls
    /\ UNCHANGED <<pc, kernelVars, feeVars, launchVars, syncInstances, initState, isLeader>>

NextSdk ==
    \E i \in Instances :
        \/ SdkInit(i)
        \/ SdkInitialized(i)
        \/ SdkDestroy(i)
        \/ ElectLeader(i)
        \/ LeadershipCallback(i)

SpecSdk == InitSdk /\ [][NextSdk]_vars

\* the instances that share the channel and have had startReceivingBlocks called
Started == {i \in Instances : syncInstances[i] /\ startReceivingBlocksCalls[i] # <<>>}

\* C18: with syncInstances, startReceivingBlocks is called on an instance only
\* when it is the elected leader and its init state is INITIALIZED, so an
\* instance that is never leader never has it called, and at most one leader
\* receives blocks.
C18_OnlyInitializedLeaderReceives ==
    pc = "sdk" =>
        /\ \A i \in Instances : syncInstances[i] =>
              \A k \in DOMAIN startReceivingBlocksCalls[i] :
                  /\ startReceivingBlocksCalls[i][k].isLeader
                  /\ startReceivingBlocksCalls[i][k].initState = INITIALIZED
        /\ \A i \in Started : leadershipResolved[i] # "no"
        /\ Cardinality({i \in Started : isLeader[i]}) <= 1

\* A second leader receives blocks after the first was destroyed, while a
\* third instance of the channel is initialized and has never been started.
C18_Witness ==
    /\ pc = "sdk"
    /\ \E i \in Started : isLeader[i] /\ initState[i] = INITIALIZED
    /\ \E i \in Started : initState[i] = DESTROYED
    /\ \E i \in Instances \ Started : syncInstances[i] /\ initState[i] = INITIALIZED

\* A callback of a resolved promise is run by the event loop: the callback of
\* awaitLeadership().then is not put off for ever.
SpecSdkFair == SpecSdk /\ \A i \in Instances : WF_vars(LeadershipCallback(i))

\* elected leader and INITIALIZED, in whichever order
LeaderAndInitialized(i) ==
    syncInstances[i] /\ isLeader[i] /\ initState[i] = INITIALIZED

\* C28 as stated: with syncInstances, if an instance is elected leader and its
\* init state becomes INITIALIZED, in either order, startReceivingBlocks is
\* eventually called on that instance.
C28_EventuallyReceives ==
    \A i \in Instances :
        LeaderAndInitialized(i) ~> (startReceivingBlocksCalls[i] # <<>>)

\* C28, amended: ... startReceivingBlocks is eventually called on that
\* instance, unless the instance is destroyed before the leadership callback
\* has run.
C28_EventuallyReceivesUnlessDestroyed ==
    \A i \in Instances :
        LeaderAndInitialized(i) ~>
            (startReceivingBlocksCalls[i] # <<>> \/ initState[i] = DESTROYED)

\* An instance that was initialized first and elected afterwards has been
\* started by the leadership callback.
C28_Witness ==
    /\ pc = "sdk"
    /\ \E i \in Instances :
          /\ LeaderAndInitialized(i)
          /\ leadershipResolved[i] = "handled"
          /\ Len(startReceivingBlocksCalls[i]) = 1

\* C29: startReceivingBlocks is called at most once on an sdk instance created
\* by createCoreSdk, for every interleaving of the leadership callback, isLeader
\* becoming true and the UPDATED_INIT_STATE(INITIALIZED) event.
C29_StartedAtMostOnce ==
    pc = "sdk" => \A i \in Instances : Len(startReceivingBlocksCalls[i]) <= 1

\* an instance made without syncInstances is started at most once
C29_AloneStartedAtMostOnce ==
    pc = "sdk" =>
        \A i \in Instances : ~syncInstances[i] => Len(startReceivingBlocksCalls[i]) <= 1

(***************************************************************************)
(* Launch geometry.  A kernel is launched on gridDim blocks of blockDim    *)
(* threads; a worker is a thread of split_scalars_kernel, or a group of 4  *)
(* threads (meta_group_rank within the block) of the running-sum kernels.  *)
(* The workers of a launch run in any order; accessed records what each    *)
(* has written.                                                            *)
(***************************************************************************)
MaxBlocks == 2
MaxThreadsPerBlock == 3
MaxGroupsPerBlock == 2
MaxLaunchPoints == 2
MaxLaunchModules == 2

LaunchKernels ==
    {"split_scalars_kernel", "bucket_running_sum_kernel", "bucket_running_sum_kernel_2"}

\* the slots a thread of split_scalars_kernel writes: current_index for every i
current_indices(tid, np, nbm) == {i * np + tid : i \in 0 .. (nbm - 1)}

\* the element of final_sum a group of bucket_running_sum_kernel writes
final_sum_index(subgroup, subgroup_size, blockIdx) == subgroup + subgroup_size * blockIdx

\* the element of S_ and of G_ a group of bucket_running_sum_kernel_2 writes
S_index(subgroup, subgroup_size, blockIdx) == blockIdx

Access(worker, kind, buffers, indices, pass) ==
    {[worker |-> worker, kind |-> kind, buffer |-> b, index |-> k, pass |-> pass] :
        b \in buffers, k \in indices}

\* the element of bucket a group of initialize_buckets_kernel writes
bucket_index(subgroup, subgroup_size, blockIdx) == subgroup + subgroup_size * blockIdx

\* the limb a thread of initialize_buckets_kernel writes: data[tid]
limb_index(tid) == tid

InitLaunch ==
    /\ pc \in LaunchKernels \cup {"initialize_buckets_kernel"}
    /\ shift_ub = "clamp" /\ junk = 0 /\ oob_limb = {}
    /\ NoDigitRun /\ NoReduceRun /\ NoHistory /\ NoFeeRun /\ NoSdkRun
    /\ points = <<>> /\ scalars = <<>> /\ c = 0
    /\ bucket_indices = <<>> /\ point_indices = <<>> /\ tdone = {}
    /\ bucket_offsets = <<>> /\ bucket_sizes = <<>> /\ single_bucket_indices = <<>>
    /\ launched = {} /\ buckets = <<>> /\ final_sum = <<>> /\ final_result = 0
    /\ gridDim \in 1 .. MaxBlocks
    /\ IF pc = "split_scalars_kernel"
       THEN /\ blockDim \in 1 .. MaxThreadsPerBlock
            /\ npoints \in 1 .. MaxLaunchPoints
            /\ num_bucket_modules \in 1 .. MaxLaunchModules
       ELSE /\ \E g \in 1 .. MaxGroupsPerBlock : blockDim = 4 * g
            /\ npoints = 0
            /\ num_bucket_modules = 0
    /\ accessed = {}
    /\ partial_sum = <<>> /\ phase = <<>> /\ regs = <<>> /\ s_pass = 0 /\ t_active = 0
    /\ addition = <<>> /\ z_loop = 0

RunWorker(worker, writes) ==
    /\ worker \notin tdone
    /\ tdone' = tdone \cup {worker}
    /\ accessed' = accessed \cup writes
    /\ UNCHANGED <<pc, shift_ub, junk, oob_limb, scalar, width, digits,
                   points, scalars, npoints, c, num_bucket_modules,
                   bucket_indices, point_indices,
                   bucket_offsets, bucket_sizes, single_bucket_indices,
                   buckets, final_sum, final_result, launched, M, U, S_, G_, result,
                   history, feeVars, sdkVars,
                   gridDim, blockDim, partial_sum, phase, regs, s_pass, t_active,
                   addition, z_loop>>

\* thread threadIdx of block blockIdx of split_scalars_kernel
SplitScalarsWrites(blockIdx, threadIdx) ==
    /\ pc = "split_scalars_kernel"
    /\ RunWorker(<<blockIdx, threadIdx>>,
                 Access(<<blockIdx, threadIdx>>, "w", {"bucket_indices", "point_indices"},
                        current_indices(blockIdx * blockDim + threadIdx, npoints,
                                        num_bucket_modules), 0))

\* group subgroup of block blockIdx of bucket_running_sum_kernel
RunningSumWrites(blockIdx, subgroup) ==
    /\ pc = "bucket_running_sum_kernel"
    /\ subgroup < blockDim \div 4
    /\ RunWorker(<<blockIdx, subgroup>>,
                 Access(<<blockIdx, subgroup>>, "w", {"final_sum"},
                        {final_sum_index(subgroup, blockDim \div 4, blockIdx)}, 0))

\* group subgroup of block blockIdx of bucket_running_sum_kernel_2
RunningSum2Writes(blockIdx, subgroup) ==
    /\ pc = "bucket_running_sum_kernel_2"
    /\ subgroup < blockDim \div 4
    /\ RunWorker(<<blockIdx, subgroup>>,
                 Access(<<blockIdx, subgroup>>, "w", {"S_", "G_"},
                        {S_index(subgroup, blockDim \div 4, blockIdx)}, 0))

\* the four threads of group subgroup of block blockIdx of
\* initialize_buckets_kernel: each writes limb data[tid] of x, y and z of the
\* group's element
InitializeBucketsWrites(blockIdx, subgroup) ==
    /\ pc = "initialize_buckets_kernel"
    /\ subgroup < blockDim \div 4
    /\ RunWorker(<<blockIdx, subgroup>>,
                 UNION { Access(<<blockIdx, subgroup>>, "w",
                                {"bucket.x", "bucket.y", "bucket.z"},
                                {<<bucket_index(subgroup, blockDim \div 4, blockIdx),
                                   limb_index(blockIdx * blockDim + threadIdx)>>},
                                0) :
                         threadIdx \in (4 * subgroup) .. (4 * subgroup + 3) })

NextLaunch ==
    \E blockIdx \in 0 .. (gridDim - 1), w \in 0 .. (blockDim - 1) :
        \/ SplitScalarsWrites(blockIdx, w)
        \/ RunningSumWrites(blockIdx, w)
        \/ RunningSum2Writes(blockIdx, w)
        \/ InitializeBucketsWrites(blockIdx, w)

SpecLaunch == InitLaunch /\ [][NextLaunch]_vars

\* C19: in every kernel launch, whatever its geometry, no two workers write
\* the same element of an output buffer.
C19_DisjointWrites ==
    pc \in LaunchKernels =>
        \A a, b \in accessed :
            (a.kind = "w" /\ b.kind = "w" /\ a.buffer = b.buffer /\ a.index = b.index)
                => a.worker = b.worker

\* the elements of bucket the launch has a group for
LaunchedElements ==
    {bucket_index(g, blockDim \div 4, b) : g \in 0 .. (blockDim \div 4 - 1),
                                           b \in 0 .. (gridDim - 1)}

AllGroupsDone ==
    tdone = (0 .. (gridDim - 1)) \X (0 .. (blockDim \div 4 - 1))

\* C30: initialize_buckets_kernel sets all 4 limbs of x, y and z of every
\* bucket element it is launched over to zero, and every thread writes only
\* the limbs 0 .. 3 of its own group's element: no write lands outside that
\* element, for every global thread id.
C30_AllLimbsOfEveryElement ==
    pc = "initialize_buckets_kernel" =>
        /\ \A a \in accessed : a.index[2] \in 0 .. (LIMBS - 1)
        /\ AllGroupsDone =>
              \A e \in LaunchedElements, limb \in 0 .. (LIMBS - 1),
                 coord \in {"bucket.x", "bucket.y", "bucket.z"} :
                  \E a \in accessed : a.buffer = coord /\ a.index = <<e, limb>>

\* the first group of the first block writes the four limbs of x, y and z of
\* element 0
C30_FirstElementZeroed ==
    (pc = "initialize_buckets_kernel" /\ <<0, 0>> \in tdone) =>
        \A limb \in 0 .. (LIMBS - 1), coord \in {"bucket.x", "bucket.y", "bucket.z"} :
            \E a \in accessed : a.buffer = coord /\ a.index = <<0, limb>>

(***************************************************************************)
(* sum_reduction_kernel: one block of blockDim threads, that is blockDim/4 *)
(* groups.  Between two __syncthreads the groups run in any order, and a   *)
(* group's add reads its two operands before it stores its result.         *)
(***************************************************************************)
MaxLog2Groups == 1

ReductionBlock == 0

Groups == 0 .. (blockDim \div 4 - 1)

\* threadIdx.x < t, for the four threads of a group
GroupActive(subgroup, tt) == 4 * subgroup + 3 < tt

\* s < log2f(blockDim.x) - 1
LoopContinues(sv, bd) == sv < Log2(bd) - 1

AllGroups(ph) == [g \in Groups |-> ph]

InitSumReduction ==
    /\ pc = "load"
    /\ shift_ub = "clamp" /\ junk = 0 /\ oob_limb = {}
    /\ NoDigitRun /\ NoHistory /\ NoFeeRun /\ NoSdkRun
    /\ scalars = <<>> /\ npoints = 0 /\ c = 0 /\ num_bucket_modules = 0
    /\ bucket_indices = <<>> /\ point_indices = <<>> /\ tdone = {}
    /\ bucket_offsets = <<>> /\ bucket_sizes = <<>> /\ single_bucket_indices = <<>>
    /\ launched = {} /\ buckets = <<>> /\ final_sum = <<>> /\ final_result = 0
    /\ M = 0 /\ U = 0 /\ S_ = <<>> /\ G_ = <<>>
    /\ gridDim = 1
    /\ \E k \in 0 .. MaxLog2Groups : blockDim = 4 * Pow2(k)
    /\ points \in [0 .. (2 * (blockDim \div 4) - 1) -> InputPoints]
    /\ result = [b \in 0 .. (gridDim - 1) |-> Unwritten]
    /\ partial_sum = [k \in 0 .. (2 * (blockDim \div 4) - 1) |-> Unwritten]
    /\ phase = AllGroups("idle")
    /\ regs = AllGroups(Unwritten)
    /\ accessed = {}
    /\ s_pass = 0 /\ t_active = 0
    /\ addition = <<>> /\ z_loop = 0

reductionFrame == <<shift_ub, junk, oob_limb, scalar, width, digits,
                    points, scalars, npoints, c, num_bucket_modules,
                    bucket_indices, point_indices, tdone,
                    bucket_offsets, bucket_sizes, single_bucket_indices,
                    buckets, final_sum, final_result, launched, M, U, S_, G_,
                    history, feeVars, sdkVars, gridDim, blockDim, addition, z_loop>>

\* a group loads its two points into shared memory
LoadPoints(subgroup) ==
    /\ pc = "load"
    /\ phase[subgroup] = "idle"
    /\ partial_sum' =
          [partial_sum EXCEPT
              ![subgroup * 2] =
                  points[subgroup * 2 + 2 * (blockDim \div 4) * ReductionBlock],
              ![subgroup * 2 + 1] =
                  points[subgroup * 2 + 2 * (blockDim \div 4) * ReductionBlock + 1]]
    /\ phase' = [phase EXCEPT ![subgroup] = "done"]
    /\ UNCHANGED <<pc, reductionFrame, result, regs, accessed, s_pass, t_active>>

\* __syncthreads() after the loads; int t = blockDim.x; s = 0
LoadBarrier ==
    /\ pc = "load"
    /\ \A g \in Groups : phase[g] = "done"
    /\ pc' = "reduce"
    /\ s_pass' = 0
    /\ t_active' = blockDim
    /\ phase' = AllGroups("idle")
    /\ UNCHANGED <<reductionFrame, result, regs, accessed, partial_sum>>

\* g1_gpu::add of a group in a pass: the operands are read
ReadOperands(subgroup) ==
    /\ pc = "reduce"
    /\ phase[subgroup] = "idle"
    /\ GroupActive(subgroup, t_active)
    /\ regs' = [regs EXCEPT ![subgroup] =
                   add(partial_sum[subgroup * 2], partial_sum[subgroup * 2 + 1])]
    /\ accessed' = accessed \cup
          Access(subgroup, "r", {"partial_sum"}, {subgroup * 2, subgroup * 2 + 1}, s_pass)
    /\ phase' = [phase EXCEPT ![subgroup] = "computed"]
    /\ UNCHANGED <<pc, reductionFrame, result, partial_sum, s_pass, t_active>>

\* g1_gpu::add of a group in a pass: the sum is stored
StoreSum(subgroup) ==
    /\ pc = "reduce"
    /\ phase[subgroup] = "computed"
    /\ partial_sum' = [partial_sum EXCEPT ![subgroup] = regs[subgroup]]
    /\ accessed' = accessed \cup Access(subgroup, "w", {"partial_sum"}, {subgroup}, s_pass)
    /\ phase' = [phase EXCEPT ![subgroup] = "done"]
    /\ UNCHANGED <<pc, reductionFrame, result, regs, s_pass, t_active>>

\* __syncthreads() at the end of a pass; t -= t / 2; s++
PassBarrier ==
    /\ pc = "reduce"
    /\ \A g \in Groups : GroupActive(g, t_active) => phase[g] = "done"
    /\ s_pass' = s_pass + 1
    /\ t_active' = t_active - t_active \div 2
    /\ phase' = AllGroups("idle")
    /\ pc' = IF LoopContinues(s_pass + 1, blockDim) THEN "reduce" ELSE "store"
    /\ UNCHANGED <<reductionFrame, result, regs, accessed, partial_sum>>

\* the threads with threadIdx.x < 4 store partial_sum[subgroup] in result[blockIdx.x]
StoreResult ==
    /\ pc = "store"
    /\ result' = [result EXCEPT ![ReductionBlock] = partial_sum[0]]
    /\ pc' = "reduced"
    /\ UNCHANGED <<reductionFrame, regs, accessed, partial_sum, phase, s_pass, t_active>>

NextSumReduction ==
    \/ \E g \in Groups : LoadPoints(g) \/ ReadOperands(g) \/ StoreSum(g)
    \/ LoadBarrier
    \/ PassBarrier
    \/ StoreResult

SpecSumReduction == InitSumReduction /\ [][NextSumReduction]_vars

\* one pass with the groups run one after the other, in ascending order
RECURSIVE PassInOrder(_, _, _)
PassInOrder(ps, g, tt) ==
    IF ~GroupActive(g, tt) THEN ps
    ELSE PassInOrder([ps EXCEPT ![g] = add(ps[2 * g], ps[2 * g + 1])], g + 1, tt)

RECURSIVE PassesInOrder(_, _, _, _)
PassesInOrder(ps, sv, tt, bd) ==
    IF ~LoopContinues(sv, bd) THEN ps
    ELSE PassesInOrder(PassInOrder(ps, 0, tt), sv + 1, tt - tt \div 2, bd)

\* result[blockIdx.x] of sum_reduction_kernel when the groups run in ascending order
sum_reduction_kernel(pts, bd) == PassesInOrder(pts, 0, bd, bd)[0]

\* C20: within one pass of sum_reduction_kernel no group reads a partial_sum
\* element that another group writes in that pass, and result[blockIdx] is the
\* same for every order in which the groups run.
C20_ReductionOrderIndependent ==
    pc \in {"load", "reduce", "store", "reduced"} =>
        /\ \A a, b \in accessed :
              (a.kind = "r" /\ b.kind = "w" /\ a.pass = b.pass /\ a.index = b.index)
                  => a.worker = b.worker
        /\ pc = "reduced" => result[ReductionBlock] = sum_reduction_kernel(points, blockDim)

(***************************************************************************)
(* The curve-addition sites of the MSM kernels, each named by the line of  *)
(* its g1_gpu::add: the raw sum of two operands and what the kernel uses   *)
(* afterwards.                                                             *)
(***************************************************************************)
\* double_and_add_kernel 155, 167; binaryElementAdd 256;
\* bucket_running_sum_kernel 470, 482; bucket_running_sum_kernel_2 540, 563;
\* bucket_running_sum_kernel_3 612, 624, 674, 690; final_accumulation_kernel 748, 760
AdditionSites == {155, 167, 256, 470, 482, 540, 563, 612, 624, 674, 690, 748, 760}

\* the sites followed by if (is_zero(x) && is_zero(y) && is_zero(z)) doubling(...)
ZeroCheckedSites == {256, 482, 540, 624, 760}

\* the operand the doubling after a zero-checked site takes
DoubledOperand(site, a, b) == IF site \in {256, 624} THEN b ELSE a

\* what the kernel goes on with after the addition at a site
SiteResult(site, a, b) ==
    IF site = 256 THEN binaryElementAdd(a, b)
    ELSE IF site \in ZeroCheckedSites /\ is_zero(add(a, b))
    THEN doubling(DoubledOperand(site, a, b))
    ELSE add(a, b)

InitSites ==
    /\ pc = "site"
    /\ NoKernelRun /\ NoFeeRun /\ NoSdkRun
    /\ gridDim = 0 /\ blockDim = 0 /\ accessed = {}
    /\ partial_sum = <<>> /\ phase = <<>> /\ regs = <<>> /\ s_pass = 0 /\ t_active = 0
    /\ z_loop = 0
    /\ \E site \in AdditionSites, a \in Points, b \in Points :
          addition = [site |-> site, a |-> a, b |-> b]

AdditionAtSite ==
    /\ pc = "site"
    /\ pc' = "added"
    /\ addition' = [site |-> addition.site, a |-> addition.a, b |-> addition.b,
                    raw |-> add(addition.a, addition.b),
                    used |-> SiteResult(addition.site, addition.a, addition.b)]
    /\ UNCHANGED <<kernelVars, feeVars, sdkVars, gridDim, blockDim, accessed,
                   partial_sum, phase, regs, s_pass, t_active, z_loop>>

NextSites == AdditionAtSite

SpecSites == InitSites /\ [][NextSites]_vars

\* C21: at every addition site an addition whose raw result is the all-zero
\* triple is replaced by the doubling of one operand before it is used.
C21_ZeroSumReplacedByDoubling ==
    (pc = "added" /\ is_zero(addition.raw)) =>
        addition.used \in {doubling(addition.a), doubling(addition.b)}

\* the same, at the zero-checked sites only
C21_ZeroCheckedSites ==
    (pc = "added" /\ is_zero(addition.raw) /\ addition.site \in ZeroCheckedSites) =>
        addition.used \in {doubling(addition.a), doubling(addition.b)}

(***************************************************************************)
(* The zero bucket and the empty buckets.                                  *)
(***************************************************************************)
MaxZeroBucketC == 2
MaxZeroBucketModules == 2

\* The reducer is launched on buckets that hold z in the zero bucket of every
\* module, p in one other bucket and q in the rest.
InitZeroBucket ==
    /\ pc = "plain"
    /\ shift_ub = "clamp"
    /\ junk \in JunkPoints
    /\ oob_limb = {}
    /\ NoDigitRun /\ NoHistory /\ NoOtherRun
    /\ npoints = 0 /\ points = <<>> /\ scalars = <<>>
    /\ c \in 1 .. MaxZeroBucketC
    /\ num_bucket_modules \in 1 .. MaxZeroBucketModules
    /\ bucket_indices = <<>> /\ point_indices = <<>> /\ tdone = {}
    /\ bucket_offsets = <<>> /\ bucket_sizes = <<>> /\ single_bucket_indices = <<>>
    /\ \E z \in BucketPoints, p \in BucketPoints, q \in BucketPoints,
          k \in 0 .. (NumBuckets - 1) :
          buckets = [e \in 0 .. (NumBuckets - 1) |->
                        IF e % Pow2(c) = 0 THEN z ELSE IF e = k THEN p ELSE q]
    /\ final_sum = [m \in 0 .. (num_bucket_modules - 1) |-> junk]
    /\ final_result = junk
    /\ launched = {}
    /\ M = 1 /\ U = Pow2(c)
    /\ S_ = [b \in 0 .. (num_bucket_modules * M - 1) |-> junk]
    /\ G_ = [b \in 0 .. (num_bucket_modules * M - 1) |-> junk]
    /\ result = [m \in 0 .. (num_bucket_modules - 1) |-> junk]

SpecZeroBucket == InitZeroBucket /\ [][LaunchPlainReducer]_vars

\* the bucket array with z in the zero bucket of every module
WithZeroBuckets(bk, w, z) ==
    [e \in DOMAIN bk |-> IF e % Pow2(w) = 0 THEN z ELSE bk[e]]

\* C22: the zero bucket of a module never contributes to the module sum:
\* bucket_running_sum_kernel gives the same final_sum[m] on every bucket array
\* that differs from the one it ran on only in the zero buckets.
C22_ZeroBucketIgnored ==
    pc \in {"windowed_2", "windowed_3", "reduced"} =>
        \A z \in Points, m \in 0 .. (num_bucket_modules - 1) :
            final_sum[m] = bucket_running_sum_kernel(WithZeroBuckets(buckets, c, z), c, m)

\* The reducer has run on windows of two bits whose zero bucket holds a point
\* and whose other buckets do too.
C22_Witness ==
    /\ pc = "windowed_2"
    /\ c = 2
    /\ \E m \in 0 .. (num_bucket_modules - 1) :
          /\ ~IsInfinity(buckets[m * Pow2(c)])
          /\ ~IsInfinity(buckets[m * Pow2(c) + 1])
          /\ ~IsInfinity(final_sum[m])

\* the bucket array with the identity in every bucket no point fell into
WithEmptyBucketsZero(bk, sizes, sbi) ==
    [e \in DOMAIN bk |->
        IF \E g \in DOMAIN sizes : sbi[g] = e /\ sizes[g] = 0 THEN 0 ELSE bk[e]]

\* C23: accumulate_buckets_kernel writes nothing for a bucket of size 0, the
\* bucket then holds the all-zero triple initialize_buckets_kernel wrote, and
\* it adds nothing to the module sum of the reducer.
C23_EmptyBucketIsIdentity ==
    /\ pc = "running_sum" =>
          \A g \in DOMAIN bucket_sizes :
              bucket_sizes[g] = 0 => is_zero(buckets[single_bucket_indices[g]])
    /\ pc = "final" =>
          \A m \in 0 .. (num_bucket_modules - 1) :
              final_sum[m] =
                  bucket_running_sum_kernel(
                      WithEmptyBucketsZero(buckets, bucket_sizes, single_bucket_indices), c, m)

\* the first part of C23 alone: the kernel leaves an empty bucket as it found it
C23_EmptyBucketNotWritten ==
    [][pc = "accumulate" =>
          \A g \in DOMAIN bucket_sizes :
              bucket_sizes[g] = 0 =>
                  buckets'[single_bucket_indices[g]] = buckets[single_bucket_indices[g]]]_vars


(***************************************************************************)
(* final_accumulation_kernel, one iteration of its loop over z at a time.  *)
(***************************************************************************)
finalFrame == <<shift_ub, junk, oob_limb, scalar, width, digits,
                points, scalars, npoints, c, num_bucket_modules,
                bucket_indices, point_indices, tdone,
                bucket_offsets, bucket_sizes, single_bucket_indices,
                buckets, final_sum, launched, M, U, S_, G_, result, history,
                feeVars, sdkVars, gridDim, blockDim, accessed, partial_sum, phase,
                regs, s_pass, t_active, addition>>

\* a loop that walks the modules upwards
NextZ_upwards(z) == z + 1

\* z--
NextZ(z) == z - 1

\* final_result[0] is zeroed; z = 26
FinalLoopStart ==
    /\ pc = "final"
    /\ final_result' = 0
    /\ z_loop' = FinalModules
    /\ pc' = "final_loop"
    /\ UNCHANGED finalFrame

\* one iteration: R = final_result * exponent, final_result = R + final_sum[z - 1]
FinalLoopStep ==
    /\ pc = "final_loop"
    /\ z_loop > 0
    /\ LET R == ExponentLoops[final_result][shift_ub]
           contribution == ReadElement(final_sum, z_loop - 1, junk)
           fr1 == add(R, contribution)
       IN  final_result' = IF is_zero(fr1) THEN doubling(R) ELSE fr1
    /\ z_loop' = NextZ(z_loop)
    /\ pc' = IF z_loop' > 0 THEN "final_loop" ELSE "done"
    /\ UNCHANGED finalFrame

SpecFinalOrder == InitFinal /\ [][FinalLoopStart \/ FinalLoopStep]_vars

\* the module whose contribution the next iteration adds
ModuleIndex == z_loop - 1

\* C24 as stated: during final accumulation the module contributions are added
\* into the running result in strictly increasing module-index order.
C24_IncreasingModuleOrder ==
    [][(pc = "final_loop" /\ pc' = "final_loop") => ModuleIndex' > ModuleIndex]_vars

\* C24, amended: the module contributions are added in strictly decreasing
\* module-index order, the most significant module first.
C24_DecreasingModuleOrder ==
    [][(pc = "final_loop" /\ pc' = "final_loop") => ModuleIndex' < ModuleIndex]_vars

\* the contributions of two modules of the launch have been added, the higher first
C24_Witness ==
    /\ pc = "done"
    /\ num_bucket_modules >= 2
    /\ z_loop = 0
    /\ final_result = final_accumulation_kernel(final_sum, junk, num_bucket_modules,
                                                c, shift_ub, junk)

(***************************************************************************)
(* sum_reduction_kernel: what a block leaves in result[blockIdx.x].        *)
(***************************************************************************)
\* the group sum of pts[0 .. n - 1]
RECURSIVE GroupSum(_, _)
GroupSum(pts, n) == IF n = 0 THEN 0 ELSE (GroupValue(pts[n - 1]) + GroupSum(pts, n - 1)) % Ord

\* the groups that add in the current pass
LiveGroups == {g \in Groups : GroupActive(g, t_active)}

\* C25: sum_reduction_kernel writes to result[b] the group sum of all the
\* 2 * subgroup_size points of block b that were loaded into partial_sum, by
\* passes of pairwise additions in which each pass halves the number of live
\* partial sums.
C25_BlockSum ==
    /\ pc = "reduce" => Cardinality(LiveGroups) * Pow2(s_pass) = blockDim \div 4
    /\ pc = "reduced" =>
          GroupValue(result[ReductionBlock]) = GroupSum(points, 2 * (blockDim \div 4))

\* each pass halves the number of groups that add
C25_PassHalves ==
    pc = "reduce" => Cardinality(LiveGroups) * Pow2(s_pass) = blockDim \div 4

\* a block of one group leaves the sum of its two points, unless they are equal
C25_OneGroupSum ==
    (pc = "reduced" /\ blockDim = 4 /\ points[0] # points[1]) =>
        GroupValue(result[ReductionBlock]) = GroupSum(points, 2)

=============================================================================
